---- MODULE Spec2Model ----
(***************************************************************************)
(* A model of the chatieee ingestion and retrieval code.                   *)
(*                                                                         *)
(*   Spec          the relational store behind src/utils/database.py, the  *)
(*                 upload endpoint and its background task (src/api.py)    *)
(*                 and ingest_pdf (src/ingest/pdf_ingest.py)               *)
(*   SpecPipeline  RAGIngestionPipeline over PostgresDocumentStore         *)
(*                 (src/chatieee/pipeline.py, src/chatieee/storage.py)     *)
(*   SpecQuery     HybridRetriever, LLMReranker and the figure             *)
(*                 cross-reference (src/query.py)                          *)
(***************************************************************************)
EXTENDS Integers, Sequences, FiniteSets, TLC

\* ------------------------------------------------------------------------
\* Bounds of the model
\* ------------------------------------------------------------------------

\* uploads accepted by ingest_pdf_endpoint in one behaviour
MaxRuns == 2

\* direct calls of ingest_pdf in one behaviour
MaxIngests == 2

\* files handed to RAGIngestionPipeline._process_document in one behaviour
MaxPipelineDocs == 3

\* rows a search query returns (its LIMIT)
MaxResults == 2

\* ------------------------------------------------------------------------
\* Inputs: the PDF files
\* ------------------------------------------------------------------------

\* SQL NULL / Python None in a text column or variable
NULL == "NULL"

ExternalIds == {"a.pdf"}

\* A checksum stands for one file content (compute_checksum is SHA-256).
\* "h0" is a PDF without extractable text, "h1" and "h2" are two versions.
Checksums == {"h0", "h1", "h2"}

\* The body chunks build_chunks_from_pdf makes of a content, in order, each
\* named by the class ChunkUpdater._prepare_rows puts it in:
\*   "front"  text before the first "1 Overview" start heading
\*   "start"  the chunk holding the start heading
\*   "body"   text after it
ChunkKinds(cs) ==
    CASE cs = "h0" -> << >>
      [] cs = "h1" -> <<"front", "start">>
      [] cs = "h2" -> <<"start", "body">>

\* number of pages of a content (len(pdf.pages))
TotalPages(cs) == IF cs = "h1" THEN 2 ELSE 1

\* the (label, page) pairs extract_figures_from_pdf persists for a content
FiguresOf(cs) ==
    CASE cs = "h0" -> << >>
      [] cs = "h1" -> << [figure_label |-> "FIG. 1", page_number |-> 1,
                          caption |-> "c1"] >>
      [] cs = "h2" -> << [figure_label |-> "FIG. 1", page_number |-> 1,
                          caption |-> "c1"] >>

\* ------------------------------------------------------------------------
\* State
\* ------------------------------------------------------------------------

VARIABLES
    \* tables of src/utils/database.py
    rag_document,        \* set of rows [id, external_id, checksum, total_pages]
    rag_chunk,           \* set of rows [id, document_id, chunk_index, src, kind, embedded, cleaned]
    rag_document_page,   \* set of rows [document_id, page_number, image_uri]
    rag_figure,          \* set of rows [document_id, figure_label, page_number, caption, image_uri]
    rag_ingestion_run,   \* run id -> [document_id, status, error_message]
    serial,              \* the sequences: [doc, chunk, call]
    \* process_ingest_background, one activation per run
    bg,                  \* run id -> [pc, exc]
    \* the activation of ingest_pdf (one at a time)
    ing,
    \* tables of src/chatieee/storage.py and the pipeline's activation
    documents,           \* set of rows [document_id, file_name, file_hash]
    nodes,               \* set of rows [document_id, file_hash, chunk_index]
    pl,                  \* _process_document's activation and the id sequence
    \* one query of src/query.py
    q,
    \* get_conn of src/utils/database.py
    _pool,               \* the cached pool: 0 (None) or a pool id
    pools,               \* pool id -> "open" or "closed", in creation order
    gc,                  \* caller -> the activation of get_conn
    \* one call of a text function (splitters, parsers)
    tx,
    \* the activation of extract_figures_from_pdf (one at a time)
    fx,
    \* one StructureTracker
    tr,
    \* rag_chunk as ChunkUpdater reads and writes it, and its latest run
    cu

storeVars == <<rag_document, rag_chunk, rag_document_page, rag_figure,
               rag_ingestion_run, serial, bg, ing>>
pipeVars == <<documents, nodes, pl>>
queryVars == <<q>>
connVars == <<_pool, pools, gc>>
textVars == <<tx>>
figVars == <<fx>>
trackerVars == <<tr>>
updaterVars == <<cu>>
vars == <<rag_document, rag_chunk, rag_document_page, rag_figure,
          rag_ingestion_run, serial, bg, ing, documents, nodes, pl, q,
          _pool, pools, gc, tx, fx, tr, cu>>

\* what the actions of each specification leave alone
OutsideSpec == <<updaterVars, pipeVars, queryVars, connVars, textVars, figVars, trackerVars>>
OutsidePipeline == <<updaterVars, storeVars, queryVars, connVars, textVars, figVars, trackerVars>>
OutsideQuery == <<updaterVars, storeVars, pipeVars, connVars, textVars, figVars, trackerVars>>
OutsideConn == <<updaterVars, storeVars, pipeVars, queryVars, textVars, figVars, trackerVars>>
OutsideText == <<updaterVars, storeVars, pipeVars, queryVars, connVars, figVars, trackerVars>>
OutsideFigures == <<rag_document, rag_chunk, rag_document_page,
                    rag_ingestion_run, serial, bg, ing,
                    pipeVars, queryVars, connVars, textVars, trackerVars,
                    updaterVars>>
OutsideTracker == <<storeVars, pipeVars, queryVars, connVars, textVars,
                    figVars, updaterVars>>
OutsideUpdater == <<storeVars, pipeVars, queryVars, connVars, textVars,
                    figVars, trackerVars>>

\* ------------------------------------------------------------------------
\* src/utils/database.py: the statements, as functions of the tables
\* ------------------------------------------------------------------------

\* outcomes of a call that opens a connection: it commits or it raises
\* (get_connection raises RuntimeError, psycopg raises OperationalError)
DbOutcomes == {"ok", "DBError"}

DocRowsOf(external_id) == {d \in rag_document : d.external_id = external_id}

\* RETURNING id of upsert_document: the id of the row in conflict, or the
\* next value of the BIGSERIAL
upsert_document_id(external_id) ==
    IF DocRowsOf(external_id) # {}
    THEN (CHOOSE d \in DocRowsOf(external_id) : TRUE).id
    ELSE serial.doc

\* INSERT ... ON CONFLICT (external_id) DO UPDATE SET checksum, total_pages
upsert_document(external_id, checksum, total_pages) ==
    (rag_document \ DocRowsOf(external_id)) \cup
        { [id |-> upsert_document_id(external_id),
           external_id |-> external_id,
           checksum |-> checksum,
           total_pages |-> total_pages] }

\* build_chunks_from_pdf: the chunk dicts of a content, chunk_index from 0,
\* embedding None
build_chunks_from_pdf(cs) ==
    [i \in 1..Len(ChunkKinds(cs)) |->
        [chunk_index |-> i - 1, src |-> cs, kind |-> ChunkKinds(cs)[i]]]

\* DELETE FROM rag_chunk WHERE document_id; INSERT each chunk; one commit
replace_chunks(document_id, chunks) ==
    {c \in rag_chunk : c.document_id # document_id} \cup
        { [id |-> serial.chunk + i - 1,
           document_id |-> document_id,
           chunk_index |-> chunks[i].chunk_index,
           src |-> chunks[i].src,
           kind |-> chunks[i].kind,
           embedded |-> FALSE,
           cleaned |-> FALSE] : i \in 1..Len(chunks) }

\* upload_image_fn: a gs:// URI holding a fresh uuid4 and the suggested name;
\* the uuid is modelled by the number of the ingest_pdf call
upload_image_fn(call, suggested_name) ==
    [uuid |-> call, name |-> suggested_name]

\* DELETE FROM rag_document_page WHERE document_id; INSERT each page
replace_document_pages(document_id, cs, call) ==
    {p \in rag_document_page : p.document_id # document_id} \cup
        { [document_id |-> document_id,
           page_number |-> n,
           image_uri |-> upload_image_fn(call, <<"page", n>>)]
          : n \in 1..TotalPages(cs) }

\* a variant: INSERT INTO rag_figure without the ON CONFLICT clause
insert_figures_NoConflict(table, document_id, fig, call) ==
    table \cup
        { [document_id |-> document_id,
           figure_label |-> fig.figure_label,
           page_number |-> fig.page_number,
           caption |-> fig.caption,
           image_uri |-> upload_image_fn(call, <<"fig", fig.page_number>>)] }

\* INSERT INTO rag_figure ... ON CONFLICT (document_id, figure_label) DO UPDATE
insert_figures(table, document_id, fig, call) ==
    {f \in table : ~(f.document_id = document_id
                     /\ f.figure_label = fig.figure_label)} \cup
        { [document_id |-> document_id,
           figure_label |-> fig.figure_label,
           page_number |-> fig.page_number,
           caption |-> fig.caption,
           image_uri |-> upload_image_fn(call, <<"fig", fig.page_number>>)] }

\* extract_figures_from_pdf: the figures of the content persisted one by
\* one, each in its own commit, the first k of them
RECURSIVE persist_figures(_, _, _, _, _)
persist_figures(table, document_id, figs, k, call) ==
    IF k = 0 THEN table
    ELSE insert_figures(persist_figures(table, document_id, figs, k - 1, call),
                        document_id, figs[k], call)

\* a variant: the run is inserted with a status outside the three states
create_ingestion_run_Pending(run_id, document_id) ==
    [r \in DOMAIN rag_ingestion_run \cup {run_id} |->
        IF r = run_id
        THEN [document_id |-> document_id, status |-> "pending",
              error_message |-> NULL]
        ELSE rag_ingestion_run[r]]

\* INSERT INTO rag_ingestion_run (id, document_id, status) VALUES (.., 'processing')
create_ingestion_run(run_id, document_id) ==
    [r \in DOMAIN rag_ingestion_run \cup {run_id} |->
        IF r = run_id
        THEN [document_id |-> document_id, status |-> "processing",
              error_message |-> NULL]
        ELSE rag_ingestion_run[r]]

\* UPDATE rag_ingestion_run SET status, error_message WHERE id = run_id
update_ingestion_status(run_id, status, error_message) ==
    [r \in DOMAIN rag_ingestion_run |->
        IF r = run_id
        THEN [rag_ingestion_run[r] EXCEPT !.status = status,
                                          !.error_message = error_message]
        ELSE rag_ingestion_run[r]]

\* ------------------------------------------------------------------------
\* src/ingest/embed_and_update_chunks.py: ChunkUpdater.run(limit=None)
\* ------------------------------------------------------------------------

\* _prepare_rows keeps a chunk once the start heading was found in it or in
\* a chunk before it (ORDER BY document_id, chunk_index)
Eligible(c) ==
    \E s \in rag_chunk : /\ s.document_id = c.document_id
                         /\ s.kind = "start"
                         /\ s.chunk_index <= c.chunk_index

\* _process_document + _flush_batch: every kept chunk gets an embedding and
\* its stripped content
embed_and_update_chunks ==
    { IF Eligible(c)
      THEN [c EXCEPT !.embedded = TRUE, !.cleaned = TRUE]
      ELSE c : c \in rag_chunk }

\* ------------------------------------------------------------------------
\* src/ingest/pdf_ingest.py: ingest_pdf, one step per commit
\* ------------------------------------------------------------------------

IdleIngest ==
    [pc |-> "idle", caller |-> 0, external_id |-> NULL, checksum |-> NULL,
     document_id |-> 0, call |-> 0, exc |-> NULL, again |-> FALSE]

\* the keyword parameters in the signature of ingest_pdf
IngestPdfParams ==
    {"pdf_path", "external_id", "title", "description", "source_uri"}

\* binding the keywords of a call: an unknown keyword is a TypeError raised
\* before the body runs
CallAccepted(kwargs) == kwargs \subseteq IngestPdfParams

\* the document external_id is stored as a finished ingestion of content cs
\* left it: its chunks are those of cs, embedded, and its pages are stored
StoredFrom(external_id, cs) ==
    \E d \in DocRowsOf(external_id) :
        LET rows == {c \in rag_chunk : c.document_id = d.id} IN
        /\ d.checksum = cs
        /\ d.total_pages = TotalPages(cs)
        /\ rows # {}
        /\ {[chunk_index |-> c.chunk_index, src |-> c.src, kind |-> c.kind]
              : c \in rows}
             = {build_chunks_from_pdf(cs)[i] : i \in 1..Len(ChunkKinds(cs))}
        /\ \A c \in rows : Eligible(c) => c.embedded
        /\ {p.page_number : p \in {x \in rag_document_page :
                                      x.document_id = d.id}}
             = 1..TotalPages(cs)

\* The body up to the first commit: Path(pdf_path).is_file(), the checksum,
\* the page count and upsert_document.
\*   caller   0 for a direct call, else the run of the background task
\*   again    (history) chunks built from this content are stored for the
\*            document when the call starts
ingest_pdf(caller, external_id, cs, is_file, db) ==
    /\ ing.pc = "idle"
    /\ serial.call <= MaxIngests
    /\ IF ~is_file
       THEN /\ ing' = [IdleIngest EXCEPT !.pc = "raised", !.caller = caller,
                           !.external_id = external_id, !.checksum = cs,
                           !.call = serial.call,
                           !.exc = "FileNotFoundError"]
            /\ UNCHANGED rag_document
            /\ serial' = [serial EXCEPT !.call = @ + 1]
       ELSE IF db # "ok"
       THEN /\ ing' = [IdleIngest EXCEPT !.pc = "raised", !.caller = caller,
                           !.external_id = external_id, !.checksum = cs,
                           !.call = serial.call, !.exc = db]
            /\ UNCHANGED rag_document
            /\ serial' = [serial EXCEPT !.call = @ + 1]
       ELSE /\ ing' = [IdleIngest EXCEPT !.pc = "chunks", !.caller = caller,
                           !.external_id = external_id, !.checksum = cs,
                           !.call = serial.call,
                           !.document_id = upsert_document_id(external_id),
                           !.again = StoredFrom(external_id, cs)]
            /\ rag_document' = upsert_document(external_id, cs, TotalPages(cs))
            /\ serial' = [serial EXCEPT
                             !.call = @ + 1,
                             !.doc = IF DocRowsOf(external_id) = {}
                                     THEN @ + 1 ELSE @]
    /\ UNCHANGED <<rag_chunk, rag_document_page, rag_figure>>

\* a direct call of ingest_pdf (the module's entry point)
IngestPdf ==
    /\ \E external_id \in ExternalIds, cs \in Checksums,
          is_file \in BOOLEAN, db \in DbOutcomes :
            ingest_pdf(0, external_id, cs, is_file, db)
    /\ UNCHANGED <<rag_ingestion_run, bg>>

\* chunks = build_chunks_from_pdf(pdf_path); replace_chunks(document_id, chunks)
IngestReplaceChunks ==
    /\ ing.pc = "chunks"
    /\ \E db \in DbOutcomes :
        IF db = "ok"
        THEN /\ rag_chunk' = replace_chunks(ing.document_id,
                                 build_chunks_from_pdf(ing.checksum))
             /\ serial' = [serial EXCEPT
                              !.chunk = @ + Len(ChunkKinds(ing.checksum))]
             /\ ing' = [ing EXCEPT !.pc = "pages"]
        ELSE /\ ing' = [ing EXCEPT !.pc = "raised", !.exc = db]
             /\ UNCHANGED <<rag_chunk, serial>>
    /\ UNCHANGED <<rag_document, rag_document_page, rag_figure,
                   rag_ingestion_run, bg>>

\* persist_document_pages: every page rendered and uploaded, then
\* replace_document_pages in one commit
IngestPersistPages ==
    /\ ing.pc = "pages"
    /\ \E out \in DbOutcomes \cup {"RuntimeError"} :
        IF out = "ok"
        THEN /\ rag_document_page' =
                    replace_document_pages(ing.document_id, ing.checksum, ing.call)
             /\ ing' = [ing EXCEPT !.pc = "figures"]
        ELSE /\ ing' = [ing EXCEPT !.pc = "raised", !.exc = out]
             /\ UNCHANGED rag_document_page
    /\ UNCHANGED <<rag_document, rag_chunk, rag_figure, serial,
                   rag_ingestion_run, bg>>

\* extract_figures_from_pdf: k figures persisted, then the end of the
\* document or an exception of the upload or of insert_figures
IngestExtractFigures ==
    /\ ing.pc = "figures"
    /\ \E k \in 0..Len(FiguresOf(ing.checksum)), out \in DbOutcomes :
        /\ (out # "ok") => k < Len(FiguresOf(ing.checksum))
        /\ (out = "ok") => k = Len(FiguresOf(ing.checksum))
        /\ rag_figure' = persist_figures(rag_figure, ing.document_id,
                                         FiguresOf(ing.checksum), k, ing.call)
        /\ ing' = IF out = "ok"
                  THEN [ing EXCEPT !.pc = "embed"]
                  ELSE [ing EXCEPT !.pc = "raised", !.exc = out]
    /\ UNCHANGED <<rag_document, rag_chunk, rag_document_page, serial,
                   rag_ingestion_run, bg>>

\* embed_and_update_chunks(): the rows of the model are fewer than
\* CHUNK_UPDATE_BATCH_SIZE (200), so they are flushed in the one commit at
\* the end of ChunkUpdater.run, and a failure of the embedding call or of
\* the connection leaves the rows as they were
IngestEmbed ==
    /\ ing.pc = "embed"
    /\ \E out \in DbOutcomes :
        IF out = "ok"
        THEN /\ rag_chunk' = embed_and_update_chunks
             /\ ing' = [ing EXCEPT !.pc = "returned"]
        ELSE /\ ing' = [ing EXCEPT !.pc = "raised", !.exc = out]
             /\ UNCHANGED rag_chunk
    /\ UNCHANGED <<rag_document, rag_document_page, rag_figure, serial,
                   rag_ingestion_run, bg>>

\* the direct caller gets the result (None or the exception)
IngestReturn ==
    /\ ing.pc \in {"returned", "raised"}
    /\ ing.caller = 0
    /\ ing' = IdleIngest
    /\ UNCHANGED <<rag_document, rag_chunk, rag_document_page, rag_figure,
                   serial, rag_ingestion_run, bg>>

\* ------------------------------------------------------------------------
\* src/api.py: ingest_pdf_endpoint and process_ingest_background
\* ------------------------------------------------------------------------

RunIds == 1..MaxRuns

\* the keywords process_ingest_background passes to ingest_pdf
BackgroundCallKwargs ==
    {"pdf_path", "external_id", "title", "description", "source_uri",
     "check_strikeouts"}

Terminal == {"completed", "failed"}

\* ingest_pdf_endpoint: the file is stored, then upsert_document (with
\* total_pages=0), create_ingestion_run and background_tasks.add_task.
\* Either database call may raise, which ends the request with no task.
IngestEndpoint ==
    /\ Cardinality(DOMAIN rag_ingestion_run) < MaxRuns
    /\ \E external_id \in ExternalIds, cs \in Checksums,
          db1 \in DbOutcomes, db2 \in DbOutcomes :
        LET run_id == Cardinality(DOMAIN rag_ingestion_run) + 1 IN
        IF db1 # "ok"
        THEN UNCHANGED <<rag_document, serial, rag_ingestion_run, bg>>
        ELSE /\ rag_document' = upsert_document(external_id, cs, 0)
             /\ serial' = [serial EXCEPT
                              !.doc = IF DocRowsOf(external_id) = {}
                                      THEN @ + 1 ELSE @]
             /\ IF db2 # "ok"
                THEN UNCHANGED <<rag_ingestion_run, bg>>
                ELSE /\ rag_ingestion_run' =
                          create_ingestion_run(run_id,
                              upsert_document_id(external_id))
                     /\ bg' = [r \in DOMAIN bg \cup {run_id} |->
                                 IF r = run_id
                                 THEN [pc |-> "queued", exc |-> NULL,
                                       external_id |-> external_id]
                                 ELSE bg[r]]
    /\ UNCHANGED <<rag_chunk, rag_document_page, rag_figure, ing>>

\* process_ingest_background, the call ingest_pdf(..., check_strikeouts=...)
\* inside the try block
BgCallIngest(r) ==
    /\ r \in DOMAIN bg
    /\ bg[r].pc = "queued"
    /\ IF CallAccepted(BackgroundCallKwargs)
       THEN /\ \E cs \in Checksums, db \in DbOutcomes :
                 ingest_pdf(r, bg[r].external_id, cs, TRUE, db)
            /\ bg' = [bg EXCEPT ![r].pc = "ingesting"]
       ELSE /\ bg' = [bg EXCEPT ![r].pc = "except", ![r].exc = "TypeError"]
            /\ UNCHANGED <<rag_document, rag_chunk, rag_document_page,
                           rag_figure, serial, ing>>
    /\ UNCHANGED rag_ingestion_run

\* how the try block of process_ingest_background left ingest_pdf:
\* "returned", or the text of the exception
TryOutcome(r) ==
    IF bg[r].pc = "except" THEN bg[r].exc
    ELSE IF ing.pc = "returned" THEN "returned"
    ELSE ing.exc

\* process_ingest_background after ingest_pdf: update_ingestion_status(run_id,
\* "completed"), and in the except block update_ingestion_status(run_id,
\* "failed", str(e)); an exception of the first is caught by the except
\* block, an exception of the second leaves the task ("crashed").
\*   db1, db2   the outcomes of the two calls
\*   bg[r].exc  the exception e of the except block
process_ingest_background(r, db1, db2) ==
    LET e == IF TryOutcome(r) = "returned" THEN db1 ELSE TryOutcome(r) IN
    IF TryOutcome(r) = "returned" /\ db1 = "ok"
    THEN /\ rag_ingestion_run' = update_ingestion_status(r, "completed", NULL)
         /\ bg' = [bg EXCEPT ![r].pc = "ended"]
    ELSE IF db2 = "ok"
    THEN /\ rag_ingestion_run' = update_ingestion_status(r, "failed", e)
         /\ bg' = [bg EXCEPT ![r].pc = "ended", ![r].exc = e]
    ELSE /\ UNCHANGED rag_ingestion_run
         /\ bg' = [bg EXCEPT ![r].pc = "crashed", ![r].exc = e]

BgUpdateStatus(r) ==
    /\ r \in DOMAIN bg
    /\ IF bg[r].pc = "ingesting"
       THEN ing.caller = r /\ ing.pc \in {"returned", "raised"}
       ELSE bg[r].pc = "except"
    /\ \E db1 \in DbOutcomes, db2 \in DbOutcomes :
          process_ingest_background(r, db1, db2)
    /\ ing' = IF bg[r].pc = "ingesting" THEN IdleIngest ELSE ing
    /\ UNCHANGED <<rag_document, rag_chunk, rag_document_page, rag_figure,
                   serial>>

\* ------------------------------------------------------------------------
\* src/chatieee/storage.py and src/chatieee/pipeline.py
\* ------------------------------------------------------------------------

FileNames == {"a.pdf", "b.pdf"}

\* the chunks SectionAwareTextSplitter.split makes of a content
SplitCount(h) == IF h = "h1" THEN 2 ELSE IF h = "h2" THEN 1 ELSE 0

IdlePipeline ==
    [pc |-> "idle", file_name |-> NULL, file_hash |-> NULL, document_id |-> 0,
     changed |-> FALSE, outcome |-> NULL, calls |-> 0, next_id |-> 1]

NodesOf(document_id) == {n \in nodes : n.document_id = document_id}

\* embed_document_chunks: one NodePayload per chunk, its metadata holding
\* file_hash and chunk_index
NodePayloads(document_id, h) ==
    { [document_id |-> document_id, file_hash |-> h, chunk_index |-> i - 1]
      : i \in 1..SplitCount(h) }

ByHash(h) == {d \in documents : d.file_hash = h}
ByName(name) == {d \in documents : d.file_name = name}

\* PostgresDocumentStore.upsert_document: (document_id, needs_ingest_flag)
\* and the tables it commits
upsert_document_result(name, h) ==
    IF ByHash(h) # {}
    THEN [document_id |-> (CHOOSE d \in ByHash(h) : TRUE).document_id,
          created |-> FALSE, documents |-> documents, nodes |-> nodes]
    ELSE IF ByName(name) # {}
    THEN LET id == (CHOOSE d \in ByName(name) : TRUE).document_id IN
         [document_id |-> id, created |-> TRUE,
          documents |-> {IF d.document_id = id
                         THEN [d EXCEPT !.file_hash = h] ELSE d
                         : d \in documents},
          nodes |-> {n \in nodes : n.document_id # id}]
    ELSE [document_id |-> pl.next_id, created |-> TRUE,
          documents |-> documents \cup
              {[document_id |-> pl.next_id, file_name |-> name,
                file_hash |-> h]},
          nodes |-> nodes]

\* _process_document up to the return of store.upsert_document:
\* PDFDocumentLoader.load (ValueError when no page has text), then the
\* lookup by hash, the lookup by name and the commit.
\*   changed   (history) the file name is stored with another hash
PlProcessDocument ==
    /\ pl.pc = "idle"
    /\ pl.calls < MaxPipelineDocs
    /\ \E name \in FileNames, h \in Checksums, db \in DbOutcomes :
        LET res == upsert_document_result(name, h)
            started == [pl EXCEPT !.file_name = name, !.file_hash = h,
                                  !.calls = @ + 1,
                                  !.changed = \E d \in ByName(name) :
                                                  d.file_hash # h]
        IN
        IF SplitCount(h) = 0
        THEN /\ pl' = [started EXCEPT !.pc = "done", !.outcome = "ValueError"]
             /\ UNCHANGED <<documents, nodes>>
        ELSE IF db # "ok"
        THEN /\ pl' = [started EXCEPT !.pc = "done", !.outcome = db]
             /\ UNCHANGED <<documents, nodes>>
        ELSE /\ documents' = res.documents
             /\ nodes' = res.nodes
             /\ pl' = [started EXCEPT
                          !.pc = IF res.created THEN "embed" ELSE "done",
                          !.outcome = IF res.created THEN NULL ELSE "skipped",
                          !.document_id = res.document_id,
                          !.next_id = IF res.document_id = pl.next_id
                                      THEN @ + 1 ELSE @]

\* the rest of _process_document: split, embed_document_chunks (the
\* embedding request may fail) and insert_nodes in one commit
PlEmbedInsert ==
    /\ pl.pc = "embed"
    /\ \E out \in DbOutcomes \cup {"LlamaCloudError"} :
        IF out = "ok"
        THEN /\ nodes' = nodes \cup NodePayloads(pl.document_id, pl.file_hash)
             /\ pl' = [pl EXCEPT !.pc = "done", !.outcome = "ok"]
        ELSE /\ pl' = [pl EXCEPT !.pc = "done", !.outcome = out]
             /\ UNCHANGED nodes
    /\ UNCHANGED documents

\* RAGIngestionPipeline.run goes on to the next path: the exception is
\* logged, the return value dropped
PlReturn ==
    /\ pl.pc = "done"
    /\ pl' = [IdlePipeline EXCEPT !.calls = pl.calls, !.next_id = pl.next_id]
    /\ UNCHANGED <<documents, nodes>>

\* ------------------------------------------------------------------------
\* Figure labels: src/ingest/pdf_ingest.py and src/query.py
\* A str is a sequence of one-character strings.
\* ------------------------------------------------------------------------

LowerCase == <<"a", "b", "c", "d", "e", "f", "g", "h", "i", "j", "k", "l", "m",
               "n", "o", "p", "q", "r", "s", "t", "u", "v", "w", "x", "y", "z">>
UpperCase == <<"A", "B", "C", "D", "E", "F", "G", "H", "I", "J", "K", "L", "M",
               "N", "O", "P", "Q", "R", "S", "T", "U", "V", "W", "X", "Y", "Z">>

\* str.upper
upper(s) ==
    [i \in 1..Len(s) |->
        IF \E k \in 1..Len(LowerCase) : LowerCase[k] = s[i]
        THEN UpperCase[CHOOSE k \in 1..Len(LowerCase) : LowerCase[k] = s[i]]
        ELSE s[i]]

\* str.startswith
startswith(s, prefix) ==
    /\ Len(s) >= Len(prefix)
    /\ SubSeq(s, 1, Len(prefix)) = prefix

Drop(s, n) == SubSeq(s, n + 1, Len(s))

\* str.replace: every non-overlapping occurrence, left to right
RECURSIVE replace(_, _, _)
replace(s, old, new) ==
    IF s = <<>> THEN <<>>
    ELSE IF startswith(s, old)
    THEN new \o replace(Drop(s, Len(old)), old, new)
    ELSE <<Head(s)>> \o replace(Tail(s), old, new)

\* str.split(): the words between runs of white space
RECURSIVE split(_)
split(s) ==
    IF s = <<>> THEN <<>>
    ELSE IF Head(s) = " " THEN split(Tail(s))
    ELSE LET n == IF \E i \in 1..Len(s) : s[i] = " "
                  THEN (CHOOSE i \in 1..Len(s) :
                            /\ s[i] = " "
                            /\ \A j \in 1..(i - 1) : s[j] # " ") - 1
                  ELSE Len(s)
         IN <<SubSeq(s, 1, n)>> \o split(Drop(s, n))

\* " ".join(words)
RECURSIVE join(_)
join(words) ==
    IF words = <<>> THEN <<>>
    ELSE IF Len(words) = 1 THEN words[1]
    ELSE words[1] \o <<" ">> \o join(Tail(words))

\* pdf_ingest.normalise_figure_label
pdf_normalise_figure_label(raw) ==
    LET cleaned == join(split(replace(replace(raw, <<"F", "I", "G", "U", "R", "E">>,
                                              <<"F", "I", "G", ".">>),
                                      <<"F", "i", "g">>, <<"F", "I", "G", ".">>)))
    IN IF ~ startswith(upper(cleaned), <<"F", "I", "G", ".">>)
       THEN upper(<<"F", "I", "G", ".", " ">>
                  \o split(cleaned)[Len(split(cleaned))])
       ELSE upper(cleaned)

\* re.sub(r"(?i)^fig(?:ure)?\.?\s*", "", raw): the greedy match at the start
RECURSIVE lstrip(_)
lstrip(s) == IF s # <<>> /\ Head(s) = " " THEN lstrip(Tail(s)) ELSE s

StripFigPrefix(raw) ==
    IF ~ startswith(upper(raw), <<"F", "I", "G">>) THEN raw
    ELSE LET a == Drop(raw, 3)
             b == IF startswith(upper(a), <<"U", "R", "E">>) THEN Drop(a, 3) ELSE a
             c == IF startswith(b, <<".">>) THEN Drop(b, 1) ELSE b
         IN lstrip(c)

\* query.normalise_figure_label
normalise_figure_label(raw) ==
    LET cleaned == join(split(StripFigPrefix(raw)))
    IN IF cleaned = <<>> THEN <<"F", "I", "G", "U", "R", "E">>
       ELSE <<"F", "I", "G", "U", "R", "E", " ">> \o upper(cleaned)

\* label texts as FIGURE_LABEL_RE (captions) and FIGURE_RE (chunk text)
\* capture them
Figure_9_22c == <<"F", "i", "g", "u", "r", "e", " ", "9", "-", "2", "2", "c">>
FIG_9_22C == <<"F", "I", "G", ".", " ", "9", "-", "2", "2", "C">>
FIGURE_9_22C == <<"F", "I", "G", "U", "R", "E", " ", "9", "-", "2", "2", "C">>
fig_3 == <<"f", "i", "g", " ", " ", "3">>
LabelTexts == {Figure_9_22c, FIG_9_22C, FIGURE_9_22C, fig_3}

\* ------------------------------------------------------------------------
\* src/query.py: HybridRetriever and LLMReranker
\* An Optional[float] is the empty set (None) or a singleton; scores are
\* integers (tenths).
\* ------------------------------------------------------------------------

ChunkIds == {1, 2, 3}
VectorScores == {-7, 0, 7, 9}      \* 1 - cosine distance
LexicalScores == {0, 3, 5}         \* ts_rank_cd
RerankScores == {1, 2}             \* the scores of the relevance judgment

Unset == {}
OrZero(score) == IF score = Unset THEN 0 ELSE CHOOSE x \in score : TRUE

\* rows of a search query: distinct chunks, best first, at most LIMIT
ResultRows(scores) ==
    UNION { { r \in [1..n -> ChunkIds \X scores] :
                /\ \A i, j \in 1..n : i # j => r[i][1] # r[j][1]
                /\ \A i \in 1..(n - 1) : r[i][2] >= r[i + 1][2] }
            : n \in 0..MaxResults }

_vector_search(rows) ==
    [i \in 1..Len(rows) |->
        [id |-> rows[i][1], vector_score |-> {rows[i][2]},
         lexical_score |-> Unset, rerank_score |-> Unset]]

_lexical_search(rows) ==
    [i \in 1..Len(rows) |->
        [id |-> rows[i][1], vector_score |-> Unset,
         lexical_score |-> {rows[i][2]}, rerank_score |-> Unset]]

\* combined: a dict in insertion order, as the sequence of its values
Position(combined, id) ==
    IF \E i \in 1..Len(combined) : combined[i].id = id
    THEN CHOOSE i \in 1..Len(combined) : combined[i].id = id
    ELSE 0

\* combined[result.id] = result
SetItem(combined, result) ==
    IF Position(combined, result.id) = 0
    THEN Append(combined, result)
    ELSE [combined EXCEPT ![Position(combined, result.id)] = result]

\* the body of the loop over lexical_results
MergeLexical(combined, result) ==
    IF Position(combined, result.id) = 0
    THEN Append(combined, result)
    ELSE [combined EXCEPT ![Position(combined, result.id)].lexical_score =
                              result.lexical_score]

RECURSIVE VectorLoop(_, _)
VectorLoop(combined, results) ==
    IF results = <<>> THEN combined
    ELSE VectorLoop(SetItem(combined, Head(results)), Tail(results))

RECURSIVE LexicalLoop(_, _)
LexicalLoop(combined, results) ==
    IF results = <<>> THEN combined
    ELSE LexicalLoop(MergeLexical(combined, Head(results)), Tail(results))

_combine_results_Overwrite(vector_results, lexical_results) ==
    VectorLoop(VectorLoop(<<>>, vector_results), lexical_results)

_combine_results(vector_results, lexical_results) ==
    LexicalLoop(VectorLoop(<<>>, vector_results), lexical_results)

\* list.sort(key=..., reverse=True) over items [key, value]: stable
RECURSIVE sort_reverse(_)
sort_reverse(items) ==
    IF items = <<>> THEN <<>>
    ELSE LET init == sort_reverse(SubSeq(items, 1, Len(items) - 1))
             x == items[Len(items)]
             n == Cardinality({i \in 1..Len(init) : init[i].key >= x.key})
         IN SubSeq(init, 1, n) \o <<x>> \o SubSeq(init, n + 1, Len(init))

Values(items) == [i \in 1..Len(items) |-> items[i].value]

Max(S) == CHOOSE x \in S : \A y \in S : y <= x
Sign(x) == IF x > 0 THEN 1 ELSE IF x < 0 THEN -1 ELSE 0
Abs(x) == IF x < 0 THEN -x ELSE x

\* the rerank_score _fallback assigns, in units of
\* 1 / (10 * |max_vector| * |max_lexical|), a zero maximum counting 1
BlendedScore(c, max_vector, max_lexical, wv, wl) ==
    LET vscale == IF max_vector = 0 THEN 1 ELSE Abs(max_vector)
        lscale == IF max_lexical = 0 THEN 1 ELSE Abs(max_lexical)
    IN wv * OrZero(c.vector_score) * Sign(max_vector) * lscale
       + wl * OrZero(c.lexical_score) * Sign(max_lexical) * vscale

FallbackWith(candidates, wv, wl) ==
    IF candidates = <<>> THEN <<>>
    ELSE LET max_vector ==
                 Max({OrZero(candidates[i].vector_score) : i \in DOMAIN candidates})
             max_lexical ==
                 Max({OrZero(candidates[i].lexical_score) : i \in DOMAIN candidates})
             scored ==
                 [i \in DOMAIN candidates |->
                     [candidates[i] EXCEPT !.rerank_score =
                         {BlendedScore(candidates[i], max_vector, max_lexical,
                                       wv, wl)}]]
         IN Values(sort_reverse(
                [i \in DOMAIN scored |->
                    [key |-> OrZero(scored[i].rerank_score), value |-> scored[i]]]))

_fallback_SwappedWeights(candidates) == FallbackWith(candidates, 4, 6)

\* LLMReranker._fallback: 0.6 of the vector component, 0.4 of the lexical one
_fallback(candidates) == FallbackWith(candidates, 6, 4)

\* what the relevance-judgment call does:
\*   call    "unavailable" (no client), an exception raised by
\*           responses.create, or "response"
\*   shape   of the response text: not JSON, JSON without a ranking, or a
\*           ranking
\*   scores  the id -> score entries of the ranking
NoScores == << >>

LlmOutcomes ==
    {[call |-> c, shape |-> "none", scores |-> NoScores]
        : c \in {"unavailable", "RuntimeError", "APIError"}}
    \cup {[call |-> "response", shape |-> sh, scores |-> NoScores]
        : sh \in {"non_json", "no_ranking"}}
    \cup {[call |-> "response", shape |-> "ranking", scores |-> f]
        : f \in UNION {[D -> RerankScores] : D \in SUBSET ChunkIds}}

\* the shapes of a response text, in the order of the tests of
\* _parse_ranking_output:
\*   "none"        no text                      "non_json"  json.loads fails
\*   "id_score"    an object {id, score}        "ranking"   an object whose
\*   "mapping"     an object of scalar values               ranking, rankings
\*   "no_ranking"  any other object                         or scores is a list
\*   "list"        a top-level list             "scalar"    a number or string
\*   "null"        any other JSON value
\* and the shapes whose entries the final loop reads
EntryShapes == {"id_score", "ranking", "mapping", "list"}

\* LLMReranker._parse_ranking_output; llm.scores are the id -> score pairs
\* of the well-formed entries of the payload, a later entry of an id
\* replacing an earlier one
_parse_ranking_output(llm) ==
    IF llm.shape \in EntryShapes THEN llm.scores ELSE NoScores

Returned(value) == [raised |-> NULL, value |-> value]

RerankKey(c) == OrZero(c.rerank_score)
SumKey(c) == OrZero(c.vector_score) + OrZero(c.lexical_score)

\* remaining.sort(key=lambda c: c.rerank_score or 0.0, reverse=True)
SortByRerankScore(candidates) ==
    Values(sort_reverse([i \in DOMAIN candidates |->
               [key |-> RerankKey(candidates[i]), value |-> candidates[i]]]))

\* rest.sort(key=lambda c: (c.vector_score or 0.0) + (c.lexical_score or 0.0),
\*           reverse=True)
SortBySum(candidates) ==
    Values(sort_reverse([i \in DOMAIN candidates |->
               [key |-> SumKey(candidates[i]), value |-> candidates[i]]]))

\* one sort of all candidates, scored or not
rerank_SingleSort(candidates, llm) ==
    LET scores == _parse_ranking_output(llm)
        scored == [i \in DOMAIN candidates |->
                      IF candidates[i].id \in DOMAIN scores
                      THEN [candidates[i] EXCEPT
                               !.rerank_score = {scores[candidates[i].id]}]
                      ELSE candidates[i]]
    IN Returned(Values(sort_reverse(
           [i \in DOMAIN scored |->
               [key |-> IF scored[i].rerank_score # Unset
                        THEN RerankKey(scored[i]) ELSE SumKey(scored[i]),
                value |-> scored[i]]])))

\* LLMReranker.rerank: [raised, value]
rerank(candidates, llm) ==
    IF llm.call = "unavailable" \/ candidates = <<>>
    THEN Returned(_fallback(candidates))
    ELSE IF llm.call = "RuntimeError"
    THEN [raised |-> "RuntimeError", value |-> <<>>]
    ELSE IF llm.call = "APIError"
    THEN Returned(_fallback(candidates))
    ELSE LET scores == _parse_ranking_output(llm)
             scored == [i \in DOMAIN candidates |->
                           IF candidates[i].id \in DOMAIN scores
                           THEN [candidates[i] EXCEPT
                                    !.rerank_score = {scores[candidates[i].id]}]
                           ELSE candidates[i]]
             remaining == SelectSeq(scored, LAMBDA c : c.rerank_score # Unset)
             rest == SelectSeq(scored, LAMBDA c : c.rerank_score = Unset)
         IN IF DOMAIN scores = {}
            THEN Returned(_fallback(candidates))
            ELSE IF remaining # <<>>
            THEN Returned(SortByRerankScore(remaining) \o SortBySum(rest))
            ELSE Returned(_fallback(scored))

\* extract_figure_labels over a chunk whose content holds the references
\* refs (the texts FIGURE_RE captures)
extract_figure_labels(refs) == {normalise_figure_label(r) : r \in refs}

\* get_figures_for_chunks: the join of rag_figure with the (document_id,
\* label) pairs of the chunks
get_figures_for_chunks(figures, chunks) ==
    LET pairs == UNION { {<<ch.document_id, label>> :
                             label \in extract_figure_labels(ch.refs)}
                         : ch \in chunks }
    IN {f \in figures : <<f.document_id, f.figure_label>> \in pairs}

\* EmbeddingClient.embed of the query text: with a client the request to
\* the embeddings endpoint may raise
EmbedOutcomes == {"ok", "APIError"}

\* AnswerGenerator: the constructor raises RuntimeError without SDK or key;
\* generate catches a failure of responses.create and returns a fixed
\* text; a response without output_text and without output[0] raises
AnswerOutcomes == {"answer", "init_RuntimeError", "call_failed", "bad_response"}

AnswerKeys == {"answer", "chunks", "pages", "figures"}
ErrorKeys == {"error", "chunks", "pages", "figures"}

IdleQuery ==
    [pc |-> "idle", vector_results |-> <<>>, lexical_results |-> <<>>,
     combined |-> <<>>, llm |-> NULL, result |-> <<>>, raised |-> NULL,
     raised_in |-> NULL, embedding |-> NULL, payload_keys |-> {}, http |-> 0,
     raw |-> <<>>, ref |-> <<>>, figure_label |-> <<>>, lookup_of_raw |-> <<>>,
     matches |-> {}]

\* HybridRetriever.search up to _combine_results: embedder.embed(query),
\* the two searches, the merge
QSearch ==
    /\ q.pc = "idle"
    /\ \E emb \in EmbedOutcomes :
        IF emb # "ok"
        THEN q' = [IdleQuery EXCEPT !.pc = "raised", !.raised = emb,
                                    !.raised_in = "embed", !.embedding = emb]
        ELSE \E vrows \in ResultRows(VectorScores),
                lrows \in ResultRows(LexicalScores) :
            q' = [IdleQuery EXCEPT
                     !.pc = "combined",
                     !.embedding = emb,
                     !.vector_results = _vector_search(vrows),
                     !.lexical_results = _lexical_search(lrows),
                     !.combined = _combine_results(_vector_search(vrows),
                                                   _lexical_search(lrows))]

\* self.reranker.rerank(query, combined)
QRerank ==
    /\ q.pc = "combined"
    /\ \E llm \in LlmOutcomes :
        LET r == rerank(q.combined, llm) IN
        q' = [q EXCEPT !.pc = IF r.raised = NULL THEN "reranked" ELSE "raised",
                       !.llm = llm, !.result = r.value, !.raised = r.raised,
                       !.raised_in = IF r.raised = NULL THEN NULL ELSE "rerank"]

\* answer_query after retriever.search: get_pages_for_chunks and
\* get_figures_for_chunks (their connection may fail), then the try block
\* around AnswerGenerator and the payload of either branch
QAnswer ==
    /\ q.pc = "reranked"
    /\ \E db \in DbOutcomes, gen \in AnswerOutcomes :
        IF db # "ok"
        THEN q' = [IdleQuery EXCEPT !.pc = "raised", !.raised = db,
                                    !.raised_in = "lookup",
                                    !.embedding = q.embedding]
        ELSE q' = [IdleQuery EXCEPT
                      !.pc = "answered",
                      !.embedding = q.embedding,
                      !.payload_keys =
                          IF gen \in {"answer", "call_failed"}
                          THEN AnswerKeys ELSE ErrorKeys]

\* query_endpoint: 500 when answer_query raised, else the parsed payload
QEndpoint ==
    /\ q.pc \in {"raised", "answered"}
    /\ q' = [IdleQuery EXCEPT
                !.pc = "responded",
                !.embedding = q.embedding,
                !.raised = q.raised,
                !.raised_in = q.raised_in,
                !.payload_keys = q.payload_keys,
                !.http = IF q.pc = "raised" THEN 500 ELSE 200]

\* a figure captioned raw is extracted into rag_figure of document 1; a
\* retrieved chunk of document 1 refers to ref; get_figures_for_chunks
QFigures ==
    /\ q.pc = "idle"
    /\ \E raw \in LabelTexts, ref \in LabelTexts :
        LET figures == {[document_id |-> 1,
                         figure_label |-> pdf_normalise_figure_label(raw)]}
            chunks == {[document_id |-> 1, refs |-> {ref}]}
        IN q' = [IdleQuery EXCEPT
                    !.pc = "figures", !.raw = raw, !.ref = ref,
                    !.figure_label = pdf_normalise_figure_label(raw),
                    !.lookup_of_raw = normalise_figure_label(raw),
                    !.matches = get_figures_for_chunks(figures, chunks)]

QReturn ==
    /\ q.pc \in {"responded", "figures"}
    /\ q' = IdleQuery

\* ------------------------------------------------------------------------
\* src/utils/database.py: get_conn, init_pool, _reset_pool
\* ------------------------------------------------------------------------

_MAX_RETRIES == 5

\* concurrent requests depending on get_conn
Callers == {1, 2}

_RECOVERABLE_SUBSTRINGS ==
    {"ssl connection has been closed unexpectedly",
     "server closed the connection unexpectedly",
     "connection already closed",
     "connection not open"}

\* exceptions: the type and the lower-cased messages of the exception and
\* of its chain of causes
ConnErrors ==
    {[type |-> "OperationalError",
      chain |-> <<"consuming input failed",
                  "ssl connection has been closed unexpectedly">>],
     [type |-> "OperationalError", chain |-> <<"connection timeout expired">>],
     [type |-> "ProgrammingError",
      chain |-> <<"server closed the connection unexpectedly">>]}

\* psycopg_pool.PoolClosed, an OperationalError
PoolClosed ==
    [type |-> "OperationalError", chain |-> <<"the pool is already closed">>]

NoError == [type |-> NULL, chain |-> <<>>]

is_recoverable_Operational(exc) == exc.type = "OperationalError"

is_recoverable_operational_error(exc) ==
    /\ exc.type = "OperationalError"
    /\ \E i \in DOMAIN exc.chain : exc.chain[i] \in _RECOVERABLE_SUBSTRINGS

LoopTest_OneMore(attempt) == attempt <= _MAX_RETRIES

\* while attempt < _MAX_RETRIES
LoopTest(attempt) == attempt < _MAX_RETRIES

\* the activation of get_conn and its history:
\*   pool       the local variable pool (0 before init_pool)
\*   attempt    the local variable attempt
\*   raised     the exception get_conn ended with
\*   yields     connections handed to the consumer
\*   tries      entries of pool.connection()
\*   failed     the pool of the last recoverable failure (0: none)
IdleConn ==
    [pc |-> "idle", pool |-> 0, attempt |-> 0, last_error |-> NoError,
     raised |-> NoError, yields |-> 0, tries |-> 0, failed |-> 0]

\* the except clauses of get_conn for an exception exc raised inside the
\* try block, before or after the yield, by activation g
Except(g, exc) ==
    IF exc.type = "OperationalError"
    THEN IF ~ is_recoverable_operational_error(exc)
         THEN [g EXCEPT !.pc = "raised", !.attempt = @ + 1,
                        !.last_error = exc, !.raised = exc]
         ELSE [g EXCEPT !.pc = "reset", !.attempt = @ + 1,
                        !.last_error = exc, !.failed = g.pool]
    ELSE [g EXCEPT !.pc = "raised", !.raised = exc]

\* a request enters get_conn
GcCall(c) ==
    /\ gc[c].pc = "idle"
    /\ gc' = [gc EXCEPT ![c].pc = "loop"]
    /\ UNCHANGED <<_pool, pools>>

\* the loop test, init_pool() and the entry of pool.connection() and
\* conn.transaction(): a connection is yielded or an exception is raised;
\* after the last attempt last_error is raised
GcAttempt(c) ==
    /\ gc[c].pc = "loop"
    /\ IF ~ LoopTest(gc[c].attempt)
       THEN /\ gc' = [gc EXCEPT ![c].pc = "raised",
                                ![c].raised = gc[c].last_error]
            /\ UNCHANGED <<_pool, pools>>
       ELSE LET pool == IF _pool = 0 THEN Len(pools) + 1 ELSE _pool
                entered == [gc[c] EXCEPT !.pool = pool, !.tries = @ + 1]
            IN /\ _pool' = pool
               /\ pools' = IF _pool = 0 THEN Append(pools, "open") ELSE pools
               /\ \E out \in {NoError} \cup ConnErrors :
                    LET exc == IF pools'[pool] = "closed" THEN PoolClosed ELSE out
                    IN IF exc = NoError
                       THEN gc' = [gc EXCEPT ![c] =
                                      [entered EXCEPT !.pc = "yielded",
                                                      !.yields = @ + 1]]
                       ELSE gc' = [gc EXCEPT ![c] = Except(entered, exc)]

\* _reset_pool(pool) up to the end of await bad_pool.close()
GcResetPool(c) ==
    /\ gc[c].pc = "reset"
    /\ pools' = [pools EXCEPT ![gc[c].pool] = "closed"]
    /\ gc' = [gc EXCEPT ![c].pc = "clear"]
    /\ UNCHANGED _pool

\* the finally clause of _reset_pool: _pool = None
GcClearCache(c) ==
    /\ gc[c].pc = "clear"
    /\ _pool' = 0
    /\ gc' = [gc EXCEPT ![c].pc = "sleep"]
    /\ UNCHANGED pools

\* asyncio.sleep(min(_BASE_BACKOFF * attempt, 1.0)) is over
GcSleep(c) ==
    /\ gc[c].pc = "sleep"
    /\ gc' = [gc EXCEPT ![c].pc = "loop"]
    /\ UNCHANGED <<_pool, pools>>

\* the consumer is done with the connection it was handed: it resumes the
\* generator (the transaction commits, get_conn returns) or throws its
\* exception into it; a commit that fails raises inside the try block too
GcConsumer(c) ==
    /\ gc[c].pc = "yielded"
    /\ gc[c].yields = 1
    /\ \E out \in {NoError} \cup ConnErrors :
        IF out = NoError
        THEN gc' = [gc EXCEPT ![c].pc = "returned"]
        ELSE gc' = [gc EXCEPT ![c] = Except(gc[c], out)]
    /\ UNCHANGED <<_pool, pools>>

\* a generator that yields again after the consumer's exception was
\* thrown into it is closed by the consumer (RuntimeError: generator
\* didn't stop after athrow())
GcClose(c) ==
    /\ gc[c].pc = "yielded"
    /\ gc[c].yields > 1
    /\ gc' = [gc EXCEPT ![c].pc = "closed"]
    /\ UNCHANGED <<_pool, pools>>

\* ------------------------------------------------------------------------
\* SectionAwareTextSplitter: src/chatieee/text_splitter.py
\* ------------------------------------------------------------------------

\* how many pages a document of the text functions has at most
MaxPages == 2

Digits == {"0", "1", "2", "3", "4", "5", "6", "7", "8", "9"}
WhiteSpace == {" ", "\n"}
Range(s) == {s[i] : i \in 1..Len(s)}

\* str.strip
RECURSIVE strip(_)
strip(s) ==
    IF s = <<>> THEN s
    ELSE IF Head(s) \in WhiteSpace THEN strip(Tail(s))
    ELSE IF s[Len(s)] \in WhiteSpace THEN strip(SubSeq(s, 1, Len(s) - 1))
    ELSE s

\* str.splitlines
RECURSIVE splitlines(_)
splitlines(s) ==
    IF s = <<>> THEN <<>>
    ELSE IF \E i \in 1..Len(s) : s[i] = "\n"
    THEN LET n == CHOOSE i \in 1..Len(s) :
                      /\ s[i] = "\n"
                      /\ \A j \in 1..(i - 1) : s[j] # "\n"
         IN <<SubSeq(s, 1, n - 1)>> \o splitlines(Drop(s, n))
    ELSE <<s>>

\* str.isupper: a cased character, and no lower-case one
isupper(s) ==
    /\ \E i \in 1..Len(s) : s[i] \in Range(UpperCase)
    /\ \A i \in 1..Len(s) : s[i] \notin Range(LowerCase)

\* "\n\n".join(paragraphs)
RECURSIVE join_paragraphs(_)
join_paragraphs(paragraphs) ==
    IF paragraphs = <<>> THEN <<>>
    ELSE IF Len(paragraphs) = 1 THEN paragraphs[1]
    ELSE paragraphs[1] \o <<"\n", "\n">> \o join_paragraphs(Tail(paragraphs))

\* _paragraphs: the stripped, non-empty lines of a page text
RECURSIVE StrippedNonEmpty(_)
StrippedNonEmpty(lines) ==
    IF lines = <<>> THEN <<>>
    ELSE (IF strip(Head(lines)) # <<>> THEN <<strip(Head(lines))>> ELSE <<>>)
         \o StrippedNonEmpty(Tail(lines))

_paragraphs(text) == StrippedNonEmpty(splitlines(text))

\* HEADING_PATTERN = ^\s*(\d+(\.\d+)*)?\s*[A-Z][A-Z0-9 ,\-]{3,}$
\* the digits of a numbering, then each "." that a digit follows
RECURSIVE SkipDigits(_)
SkipDigits(s) ==
    IF s # <<>> /\ Head(s) \in Digits THEN SkipDigits(Tail(s)) ELSE s

RECURSIVE SkipSegments(_)
SkipSegments(s) ==
    IF Len(s) >= 2 /\ s[1] = "." /\ s[2] \in Digits
    THEN SkipSegments(SkipDigits(Tail(s)))
    ELSE s

SkipNumbering(s) ==
    IF s # <<>> /\ Head(s) \in Digits THEN SkipSegments(SkipDigits(s)) ELSE s

RECURSIVE SkipSpace(_)
SkipSpace(s) ==
    IF s # <<>> /\ Head(s) \in WhiteSpace THEN SkipSpace(Tail(s)) ELSE s

HEADING_PATTERN(s) ==
    LET title == SkipSpace(SkipNumbering(SkipSpace(s)))
    IN /\ Len(title) >= 4
       /\ title[1] \in Range(UpperCase)
       /\ \A i \in 2..Len(title) :
              title[i] \in Range(UpperCase) \cup Digits \cup {" ", ",", "-"}

\* SectionAwareTextSplitter._looks_like_heading
_looks_like_heading(value) ==
    LET stripped == strip(value)
    IN \/ (Len(split(stripped)) <= 1 /\ isupper(stripped))
       \/ HEADING_PATTERN(stripped)

\* SectionAwareTextSplitter._emit_chunk; flushed_by records which of the
\* three calls in split built the chunk and pages the pages of the
\* paragraphs in the buffer; neither is a field of Chunk
_emit_chunk(index, paragraphs, start_page, end_page, section_title, flushed_by, pages) ==
    [index |-> index,
     text |-> strip(join_paragraphs(paragraphs)),
     section_title |-> section_title,
     page_span |-> <<start_page, end_page>>,
     flushed_by |-> flushed_by,
     pages |-> pages]

\* the last n characters of a text: text[-n:]
Last(text, n) ==
    IF n >= Len(text) THEN text ELSE SubSeq(text, Len(text) - n + 1, Len(text))

\* SectionAwareTextSplitter._with_overlap: the new buffer (its size is the
\* length of its only element)
_with_overlap(self, buffer) ==
    IF buffer = <<>> \/ self.overlap_chars = 0 THEN <<>>
    ELSE << Last(join_paragraphs(buffer), self.overlap_chars) >>

BufferChars(buffer) == IF buffer = <<>> THEN 0 ELSE Len(buffer[1])

\* the locals of split before the first page; no section is <<>>, no
\* start page is 0; buffer_pages, no local of split, are the pages of the
\* paragraphs in the buffer (with an overlap, of the text it was cut from)
SplitLocals ==
    [chunks |-> <<>>, buffer |-> <<>>, buffer_pages |-> {}, buffer_chars |-> 0,
     buffer_start_page |-> 0, current_section |-> <<>>, chunk_index |-> 0,
     last_page_number |-> 1]

\* a variant of HeadingFlush that keeps the index
HeadingFlush_SameIndex(st, page_number) ==
    [st EXCEPT
        !.chunks = Append(@, _emit_chunk(st.chunk_index, st.buffer,
                              (IF st.buffer_start_page # 0
                               THEN st.buffer_start_page ELSE page_number),
                              page_number, st.current_section, "heading",
                              st.buffer_pages)),
        !.buffer = <<>>,
        !.buffer_pages = {},
        !.buffer_chars = 0,
        !.buffer_start_page = 0]

\* split, lines 44-57: a heading flushes a non-empty buffer
HeadingFlush(st, page_number) ==
    [st EXCEPT
        !.chunks = Append(@, _emit_chunk(st.chunk_index, st.buffer,
                              (IF st.buffer_start_page # 0
                               THEN st.buffer_start_page ELSE page_number),
                              page_number, st.current_section, "heading",
                              st.buffer_pages)),
        !.chunk_index = @ + 1,
        !.buffer = <<>>,
        !.buffer_pages = {},
        !.buffer_chars = 0,
        !.buffer_start_page = 0]

\* split, lines 68-80: the buffer reached max_chars
SizeFlush(self, st, page_number) ==
    [st EXCEPT
        !.chunks = Append(@, _emit_chunk(st.chunk_index, st.buffer,
                              st.buffer_start_page, page_number,
                              st.current_section, "size", st.buffer_pages)),
        !.chunk_index = @ + 1,
        !.buffer = _with_overlap(self, st.buffer),
        !.buffer_pages = IF _with_overlap(self, st.buffer) = <<>> THEN {} ELSE @,
        !.buffer_chars = BufferChars(_with_overlap(self, st.buffer)),
        !.buffer_start_page = page_number]

\* split, lines 41-80: one paragraph of a page
SplitParagraph(self, st, paragraph, page_number) ==
    IF _looks_like_heading(paragraph)
    THEN [(IF st.buffer # <<>> THEN HeadingFlush(st, page_number) ELSE st)
             EXCEPT !.current_section = strip(paragraph),
                    !.buffer_start_page = page_number]
    ELSE LET appended ==
                 [st EXCEPT
                     !.buffer_start_page = IF @ = 0 THEN page_number ELSE @,
                     !.buffer = Append(@, paragraph),
                     !.buffer_pages = @ \cup {page_number},
                     !.buffer_chars = @ + Len(paragraph)]
         IN IF appended.buffer_chars >= self.max_chars
            THEN SizeFlush(self, appended, page_number)
            ELSE appended

RECURSIVE SplitParagraphs(_, _, _, _)
SplitParagraphs(self, st, paragraphs, page_number) ==
    IF paragraphs = <<>> THEN st
    ELSE SplitParagraphs(self,
                         SplitParagraph(self, st, Head(paragraphs), page_number),
                         Tail(paragraphs), page_number)

\* split, lines 38-80: the pages in order
RECURSIVE SplitPages(_, _, _)
SplitPages(self, st, pages) ==
    IF pages = <<>> THEN st
    ELSE SplitPages(self,
                    SplitParagraphs(self,
                                    [st EXCEPT !.last_page_number =
                                                   Head(pages).page_number],
                                    _paragraphs(Head(pages).text),
                                    Head(pages).page_number),
                    Tail(pages))

\* SectionAwareTextSplitter.split
splitter_split(self, pages) ==
    LET st == SplitPages(self, SplitLocals, pages)
    IN IF st.buffer # <<>>
       THEN Append(st.chunks,
                   _emit_chunk(st.chunk_index, st.buffer,
                               (IF st.buffer_start_page # 0
                                THEN st.buffer_start_page
                                ELSE st.last_page_number),
                               st.last_page_number, st.current_section, "end",
                               st.buffer_pages))
       ELSE st.chunks

\* page texts as DocumentLoader.load leaves them (stripped)
PageTextSet ==
    { <<>>,
      <<"I", "N", "T", "R", "O">>,
      <<"a", "b", " ", "c", "d", "\n", "e", "f", "g">>,
      <<"a", "b", "c", "d", "e", "f">>,
      <<"h", "i", "\n", "\n", " ", "j", "k">>,
      <<"h", "i", "\n", "2", " ", "S", "C", "O", "P", "E", "\n",
        "m", "n", "o", "p">> }

\* DocumentLoader.load: one PageText per page, numbered from 1, and some
\* page has text
ParsedPages ==
    { pages \in UNION { [1..n -> [page_number : 1..n, text : PageTextSet]]
                        : n \in 1..MaxPages } :
        /\ \A i \in 1..Len(pages) : pages[i].page_number = i
        /\ \E i \in 1..Len(pages) : pages[i].text # <<>> }

\* the splitters that the constructor accepts (max_chars > 0,
\* overlap_chars >= 0)
Splitters == [max_chars : {5, 7}, overlap_chars : {0, 3}]

\* ------------------------------------------------------------------------
\* build_chunks_from_pdf, page by page: src/ingest/pdf_ingest.py
\* A paragraph and a table text are their lengths in characters.
\* ------------------------------------------------------------------------

MAX_CHARS_PER_BODY_CHUNK == 1800

\* the pages of a PDF: the cleaned, non-empty paragraphs that
\* extract_body_paragraphs returns and the tables that page.extract_tables
\* returns (0: a table without text)
PdfPageSet ==
    { [paragraphs |-> <<>>, tables |-> <<>>],
      [paragraphs |-> <<800, 900, 1000>>, tables |-> <<>>],
      [paragraphs |-> <<1000>>, tables |-> <<0, 40>>],
      [paragraphs |-> <<1900>>, tables |-> <<>>],
      [paragraphs |-> <<>>, tables |-> <<40>>] }

Pdfs == UNION { [1..n -> PdfPageSet] : n \in 1..MaxPages }

\* extract_table_texts: the tables with text, numbered as on the page
RECURSIVE TableTextsFrom(_, _)
TableTextsFrom(tables, idx) ==
    IF idx > Len(tables) THEN <<>>
    ELSE (IF tables[idx] # 0
          THEN << [text |-> tables[idx], table_index_on_page |-> idx] >>
          ELSE <<>>)
         \o TableTextsFrom(tables, idx + 1)

extract_table_texts(page) == TableTextsFrom(page.tables, 1)

RECURSIVE SumLen(_)
SumLen(buffer) ==
    IF buffer = <<>> THEN 0 ELSE Head(buffer).len + SumLen(Tail(buffer))

\* len(" ".join(buffer).strip()): cleaned paragraphs have no outer space
BodyTextLen(buffer) ==
    IF buffer = <<>> THEN 0 ELSE SumLen(buffer) + Len(buffer) - 1

\* lines 723-737 and 748-762: the buffer becomes a body chunk
FlushBody(st) ==
    IF BodyTextLen(st.buffer) > 0
    THEN [st EXCEPT
             !.chunks = Append(@, [chunk_index |-> st.chunk_index,
                                   page_start |-> st.buffer_page_start,
                                   page_end |-> st.buffer_page_end,
                                   content |-> BodyTextLen(st.buffer),
                                   paragraphs |-> st.buffer,
                                   chunk_type |-> "body",
                                   table_index_on_page |-> 0]),
             !.chunk_index = @ + 1]
    ELSE st

\* lines 716-744: one paragraph of a page
BodyParagraph(st, para, page_num) ==
    LET seen == [st EXCEPT
                    !.buffer_page_start = IF @ = 0 THEN page_num ELSE @,
                    !.buffer_page_end = page_num]
        prospective_len == SumLen(seen.buffer) + Len(seen.buffer) + para
        item == [len |-> para, page |-> page_num]
    IN IF prospective_len > MAX_CHARS_PER_BODY_CHUNK /\ seen.buffer # <<>>
       THEN [FlushBody(seen) EXCEPT !.buffer = << item >>,
                                    !.buffer_page_start = page_num,
                                    !.buffer_page_end = page_num]
       ELSE [seen EXCEPT !.buffer = Append(@, item)]

RECURSIVE BodyParagraphs(_, _, _)
BodyParagraphs(st, paragraphs, page_num) ==
    IF paragraphs = <<>> THEN st
    ELSE BodyParagraphs(BodyParagraph(st, Head(paragraphs), page_num),
                        Tail(paragraphs), page_num)

\* lines 710-744: the first pass over the pages
RECURSIVE BodyPages(_, _, _)
BodyPages(st, pdf, page_num) ==
    IF page_num > Len(pdf) THEN st
    ELSE BodyPages(BodyParagraphs(st, pdf[page_num].paragraphs, page_num),
                   pdf, page_num + 1)

\* lines 768-789: the tables of one page
RECURSIVE TableChunks(_, _, _)
TableChunks(st, table_infos, page_num) ==
    IF table_infos = <<>> THEN st
    ELSE TableChunks(
             (IF Head(table_infos).text = 0 THEN st
              ELSE [st EXCEPT
                       !.chunks = Append(@,
                           [chunk_index |-> st.chunk_index,
                            page_start |-> page_num,
                            page_end |-> page_num,
                            content |-> Head(table_infos).text,
                            paragraphs |-> <<>>,
                            chunk_type |-> "table",
                            table_index_on_page |->
                                Head(table_infos).table_index_on_page]),
                       !.chunk_index = @ + 1]),
             Tail(table_infos), page_num)

\* lines 766-789: the second pass over the pages
RECURSIVE TablePages(_, _, _)
TablePages(st, pdf, page_num) ==
    IF page_num > Len(pdf) THEN st
    ELSE TablePages(TableChunks(st, extract_table_texts(pdf[page_num]), page_num),
                    pdf, page_num + 1)

BodyLocals ==
    [chunks |-> <<>>, buffer |-> <<>>, buffer_page_start |-> 0,
     buffer_page_end |-> 0, chunk_index |-> 0]

\* build_chunks_from_pdf on the pages of a PDF
build_chunks_from_pages(pdf) ==
    LET body == BodyPages(BodyLocals, pdf, 1)
        flushed == IF body.buffer # <<>> THEN FlushBody(body) ELSE body
    IN TablePages(flushed, pdf, 1).chunks

\* ------------------------------------------------------------------------
\* SpecText: one call of a text function on an input, and its result
\* ------------------------------------------------------------------------

\* the response texts given to _parse_ranking_output: every shape, with
\* the entries found in it (one entry in an {id, score} object, none in a
\* scalar or in text that is no JSON)
RawOutputs ==
    {[call |-> "response", shape |-> sh, scores |-> NoScores]
        : sh \in {"none", "non_json", "scalar", "null"}}
    \cup {[call |-> "response", shape |-> sh, scores |-> f]
        : sh \in {"ranking", "mapping", "list", "no_ranking"},
          f \in UNION {[D -> RerankScores] : D \in SUBSET ChunkIds}}
    \cup {[call |-> "response", shape |-> "id_score", scores |-> f]
        : f \in UNION {[{id} -> RerankScores] : id \in ChunkIds}}

IdleText ==
    [pc |-> "idle", self |-> [max_chars |-> 1, overlap_chars |-> 0],
     pages |-> <<>>, pdf |-> <<>>, chunks |-> <<>>,
     llm |-> [call |-> "response", shape |-> "none", scores |-> NoScores],
     scores |-> NoScores, ranked |-> <<>>, table |-> {}, matches |-> <<>>]

\* chunks = splitter.split(pages)
TxSplit ==
    /\ tx.pc = "idle"
    /\ \E self \in Splitters, pages \in ParsedPages :
           tx' = [tx EXCEPT !.pc = "split", !.self = self, !.pages = pages,
                            !.chunks = splitter_split(self, pages)]

\* chunks = build_chunks_from_pdf(path)
TxBuildChunks ==
    /\ tx.pc = "idle"
    /\ \E pdf \in Pdfs :
           tx' = [tx EXCEPT !.pc = "built", !.pdf = pdf,
                            !.chunks = build_chunks_from_pages(pdf)]

\* scores = self._parse_ranking_output(raw_output)
TxParseRanking ==
    /\ tx.pc = "idle"
    /\ \E llm \in RawOutputs :
           tx' = [tx EXCEPT !.pc = "parsed", !.llm = llm,
                            !.scores = _parse_ranking_output(llm)]

TxReturn ==
    /\ tx.pc # "idle"
    /\ tx' = IdleText

\* ------------------------------------------------------------------------
\* extract_figures_from_pdf: src/ingest/pdf_ingest.py
\* ------------------------------------------------------------------------

\* how many times extract_figures_from_pdf is called
MaxExtractions == 2

DocumentIds == {1, 2}

\* the pages of a PDF with figures: the caption lines that
\* _extract_caption_candidates finds (the text FIGURE_LABEL_RE matched, and
\* the caption text) and the image objects of the page (the label text
\* found near the image or in the page text, <<>> when there is none)
CaptionsPage ==
    [captions |-> << [raw |-> Figure_9_22c, caption_text |-> "c1"],
                     [raw |-> FIG_9_22C, caption_text |-> "c2"],
                     [raw |-> FIGURE_9_22C, caption_text |-> "c3"] >>,
     images |-> <<>>]
MixedPage ==
    [captions |-> << [raw |-> FIG_9_22C, caption_text |-> "c4"] >>,
     images |-> << [raw |-> fig_3, caption_text |-> "c5"] >>]
ImagesPage ==
    [captions |-> <<>>,
     images |-> << [raw |-> fig_3, caption_text |-> "c6"],
                   [raw |-> <<>>, caption_text |-> ""],
                   [raw |-> fig_3, caption_text |-> ""] >>]

FigurePdfs ==
    { <<CaptionsPage, MixedPage>>, <<ImagesPage, MixedPage>>,
      <<MixedPage, ImagesPage>> }

IdleFigures ==
    [pc |-> "idle", pdf |-> <<>>, document_id |-> 0, call |-> 0,
     page_num |-> 0, idx |-> 0, figures_on_page |-> 0, seen_labels |-> {},
     persisted |-> <<>>]

\* what happens to a candidate whose label was not seen: no bounding box
\* (captions only), _render_bbox raising, upload_image_fn or insert_figures
\* raising, or the figure persisted
CaptionOutcomes == {"no_bbox", "render_failed", "persist_raised", "persisted"}
ImageOutcomes == {"render_failed", "persist_raised", "persisted"}

\* extract_figures_from_pdf(pdf_path, document_id, upload_image_fn)
FxCall ==
    /\ fx.pc = "idle"
    /\ fx.call < MaxExtractions
    /\ \E pdf \in FigurePdfs, document_id \in DocumentIds :
           fx' = [IdleFigures EXCEPT !.pc = "captions", !.pdf = pdf,
                                     !.document_id = document_id,
                                     !.call = fx.call + 1,
                                     !.page_num = 1, !.idx = 1]
    /\ UNCHANGED rag_figure

\* the candidate at fx.idx: skipped, or _persist_figure called on it
Candidate(figure_label, caption_text, out) ==
    LET fig == [figure_label |-> figure_label, page_number |-> fx.page_num,
                caption |-> caption_text]
    IN CASE out = "persisted" ->
               /\ rag_figure' = insert_figures(rag_figure, fx.document_id,
                                               fig, fx.call)
               /\ fx' = [fx EXCEPT
                            !.idx = @ + 1,
                            !.figures_on_page = @ + 1,
                            !.seen_labels = @ \cup {figure_label},
                            !.persisted = Append(@, fig)]
         [] out = "persist_raised" ->
               /\ fx' = [fx EXCEPT !.pc = "raised"]
               /\ UNCHANGED rag_figure
         [] OTHER ->
               /\ fx' = [fx EXCEPT !.idx = @ + 1]
               /\ UNCHANGED rag_figure

\* lines 598-628: one caption of the page
FxCaption ==
    /\ fx.pc = "captions"
    /\ fx.idx <= Len(fx.pdf[fx.page_num].captions)
    /\ LET caption == fx.pdf[fx.page_num].captions[fx.idx]
           figure_label == pdf_normalise_figure_label(caption.raw)
       IN IF figure_label \in fx.seen_labels
          THEN /\ fx' = [fx EXCEPT !.idx = @ + 1]
               /\ UNCHANGED rag_figure
          ELSE \E out \in CaptionOutcomes :
                   Candidate(figure_label, caption.caption_text, out)

\* the loop goes on with the next page, or the function returns
NextFigurePage ==
    IF fx.page_num = Len(fx.pdf)
    THEN [fx EXCEPT !.pc = "returned"]
    ELSE [fx EXCEPT !.pc = "captions", !.page_num = @ + 1, !.idx = 1,
                    !.figures_on_page = 0]

\* lines 630-637: after the captions, the images only when no caption of
\* the page was persisted
FxCaptionsDone ==
    /\ fx.pc = "captions"
    /\ fx.idx > Len(fx.pdf[fx.page_num].captions)
    /\ fx' = IF fx.figures_on_page > 0
             THEN NextFigurePage
             ELSE [fx EXCEPT !.pc = "images", !.idx = 1]
    /\ UNCHANGED rag_figure

\* lines 638-674: one image object of the page
FxImage ==
    /\ fx.pc = "images"
    /\ fx.idx <= Len(fx.pdf[fx.page_num].images)
    /\ LET img == fx.pdf[fx.page_num].images[fx.idx]
           figure_label == pdf_normalise_figure_label(img.raw)
       IN IF img.raw = <<>> \/ figure_label \in fx.seen_labels
          THEN /\ fx' = [fx EXCEPT !.idx = @ + 1]
               /\ UNCHANGED rag_figure
          ELSE \E out \in ImageOutcomes :
                   Candidate(figure_label, img.caption_text, out)

FxImagesDone ==
    /\ fx.pc = "images"
    /\ fx.idx > Len(fx.pdf[fx.page_num].images)
    /\ fx' = NextFigurePage
    /\ UNCHANGED rag_figure

FxReturn ==
    /\ fx.pc \in {"returned", "raised"}
    /\ fx' = [IdleFigures EXCEPT !.call = fx.call]
    /\ UNCHANGED rag_figure

\* ------------------------------------------------------------------------
\* StructureTracker: src/ingest/embed_and_update_chunks.py
\* ------------------------------------------------------------------------

\* how many lines the content of a chunk has at most
MaxContentLines == 2

DigitChars == <<"0", "1", "2", "3", "4", "5", "6", "7", "8", "9">>

\* int(text) of a run of digits
RECURSIVE ToInt(_)
ToInt(ds) ==
    IF ds = <<>> THEN 0
    ELSE 10 * ToInt(SubSeq(ds, 1, Len(ds) - 1))
         + (CHOOSE n \in 0..9 : DigitChars[n + 1] = ds[Len(ds)])

\* str.lower
lower(s) ==
    [i \in 1..Len(s) |->
        IF \E k \in 1..Len(UpperCase) : UpperCase[k] = s[i]
        THEN LowerCase[CHOOSE k \in 1..Len(UpperCase) : UpperCase[k] = s[i]]
        ELSE s[i]]

Letters == Range(LowerCase) \cup Range(UpperCase)

\* \w of the regular expressions
WordChars == Letters \cup Digits \cup {"_"}

\* str.title: a letter after a non-letter in upper case, the others lower
title(s) ==
    [i \in 1..Len(s) |->
        IF s[i] \notin Letters THEN s[i]
        ELSE IF i = 1 \/ s[i - 1] \notin Letters
        THEN upper(<<s[i]>>)[1]
        ELSE lower(<<s[i]>>)[1]]

\* str.rstrip(". ")
RECURSIVE rstrip_dot_space(_)
rstrip_dot_space(s) ==
    IF s # <<>> /\ s[Len(s)] \in {".", " "}
    THEN rstrip_dot_space(SubSeq(s, 1, Len(s) - 1))
    ELSE s

\* needle in s
Contains(s, needle) ==
    \E i \in 0..(Len(s) - Len(needle)) : startswith(Drop(s, i), needle)

\* the number of digits s begins with
DigitRun(s) == Len(s) - Len(SkipDigits(s))

\* (?:\.\d+){0,k}: the length of what it matches at the start of s
RECURSIVE ExtraSegments(_, _)
ExtraSegments(s, k) ==
    IF k > 0 /\ Len(s) >= 2 /\ s[1] = "." /\ s[2] \in Digits
    THEN 1 + DigitRun(Tail(s))
           + ExtraSegments(Drop(s, 1 + DigitRun(Tail(s))), k - 1)
    ELSE 0

\* (?:Section\s+)? at the start of s, IGNORECASE: what follows it
AfterSection(s) ==
    IF Len(s) >= 8
       /\ lower(SubSeq(s, 1, 7)) = <<"s", "e", "c", "t", "i", "o", "n">>
       /\ s[8] \in WhiteSpace
    THEN SkipSpace(Drop(s, 7))
    ELSE s

\* STRUCTURE_RE.match(line): [matched, num, title]
\*   ^\s*(?:Section\s+)?(?P<num>\d+(?:\.\d+){0,3})[\.)]?\s+(?P<title>[A-Za-z0-9][^\n]*)$
STRUCTURE_RE(line) ==
    LET s == AfterSection(SkipSpace(line))
        n == IF DigitRun(s) = 0 THEN 0
             ELSE DigitRun(s) + ExtraSegments(Drop(s, DigitRun(s)), 3)
        rest == Drop(s, n)
        spaced == IF rest # <<>> /\ Head(rest) \in {".", ")"}
                  THEN Tail(rest) ELSE rest
        text == SkipSpace(spaced)
    IN [matched |-> /\ n > 0
                    /\ spaced # <<>>
                    /\ Head(spaced) \in WhiteSpace
                    /\ text # <<>>
                    /\ Head(text) \in Letters \cup Digits
                    /\ "\n" \notin Range(text),
        num |-> SubSeq(s, 1, n),
        title |-> text]

\* ALT_HEADING_RE = ^[A-Z][A-Z0-9 /&'\-]{3,}$
ALT_HEADING_RE(line) ==
    /\ Len(line) >= 4
    /\ line[1] \in Range(UpperCase)
    /\ \A i \in 2..Len(line) :
           line[i] \in Range(UpperCase) \cup Digits \cup {" ", "/", "&", "'", "-"}

\* the first three PAGE_PATTERNS: the word, and whether \s+ follows it
\* (\s* otherwise)
PageWords ==
    << [word |-> <<"p", "a", "g", "e">>, space |-> 1],
       [word |-> <<"p", "g", ".">>, space |-> 0],
       [word |-> <<"p", ".">>, space |-> 0] >>

\* one of the first three patterns matching at position i of s: the
\* digits of its group "page", or <<>>
PageAt(s, i, pattern) ==
    LET after == Drop(s, i - 1 + Len(pattern.word))
        digits == SkipSpace(after)
        r == DigitRun(digits)
    IN IF /\ (i = 1 \/ s[i - 1] \notin WordChars)
          /\ startswith(lower(Drop(s, i - 1)), pattern.word)
          /\ Len(after) - Len(digits) >= pattern.space
          /\ r \in 1..4
          /\ (Len(digits) = r \/ digits[r + 1] \notin WordChars)
       THEN SubSeq(digits, 1, r)
       ELSE <<>>

\* the fourth pattern, ^\s*-{0,3}\s*(?P<page>\d{1,4})\s*-{0,3}\s*$: the
\* digits of its group, or <<>>
RECURSIVE SkipDashes(_, _)
SkipDashes(s, k) ==
    IF k > 0 /\ s # <<>> /\ Head(s) = "-" THEN SkipDashes(Tail(s), k - 1) ELSE s

LonePage(s) ==
    LET digits == SkipSpace(SkipDashes(SkipSpace(s), 3))
        r == DigitRun(digits)
    IN IF /\ r \in 1..4
          /\ SkipSpace(SkipDashes(SkipSpace(Drop(digits, r)), 3)) = <<>>
       THEN SubSeq(digits, 1, r)
       ELSE <<>>

\* pattern.search(line) for the k-th pattern: the digits of the leftmost
\* match, or <<>>
PageSearch(s, k) ==
    IF k = 4 THEN LonePage(s)
    ELSE IF \E i \in 1..Len(s) : PageAt(s, i, PageWords[k]) # <<>>
    THEN PageAt(s, CHOOSE i \in 1..Len(s) :
                       /\ PageAt(s, i, PageWords[k]) # <<>>
                       /\ \A j \in 1..(i - 1) : PageAt(s, j, PageWords[k]) = <<>>,
                PageWords[k])
    ELSE <<>>

\* StructureTracker._match_page_number: the empty set is None
_match_page_number(line) ==
    IF \E k \in 1..4 : PageSearch(line, k) # <<>>
    THEN { ToInt(PageSearch(line, CHOOSE k \in 1..4 :
                     /\ PageSearch(line, k) # <<>>
                     /\ \A j \in 1..(k - 1) : PageSearch(line, j) = <<>>)) }
    ELSE {}

\* StructureTracker._extract_page_numbers, as the set of the numbers
_extract_page_numbers(content) ==
    { ToInt(PageAt(content, i, PageWords[k])) :
        <<i, k>> \in { p \in (1..Len(content)) \X (1..3) :
                         PageAt(content, p[1], PageWords[p[2]]) # <<>> } }
    \cup (IF LonePage(content) # <<>> THEN {ToInt(LonePage(content))} ELSE {})

\* StructureState(): no label is <<>>, no page number is the empty set
StructureState ==
    [heading |-> <<>>, section |-> <<>>, subsection |-> <<>>,
     page_number |-> {}, page_span |-> {}]

\* numbering.split("."), without the empty segments
RECURSIVE Segments(_)
Segments(numbering) ==
    IF numbering = <<>> THEN <<>>
    ELSE IF Head(numbering) = "." THEN Segments(Tail(numbering))
    ELSE << SubSeq(numbering, 1, DigitRun(numbering)) >>
         \o Segments(Drop(numbering, DigitRun(numbering)))

\* label.split(" ", 1)[-1]
AfterFirstSpace(label) ==
    IF " " \in Range(label)
    THEN Drop(label, CHOOSE i \in 1..Len(label) :
                         /\ label[i] = " "
                         /\ \A j \in 1..(i - 1) : label[j] # " ")
    ELSE label

\* a variant that records the label without filling in its parents
_update_hierarchy_NoParents(state, numbering, label) ==
    LET segments == Segments(numbering)
    IN IF segments = <<>> THEN state
       ELSE IF Len(segments) = 1 THEN [state EXCEPT !.heading = label]
       ELSE IF Len(segments) = 2 THEN [state EXCEPT !.section = label]
       ELSE [state EXCEPT !.subsection = label]

\* StructureTracker._update_hierarchy
_update_hierarchy(state, numbering, label) ==
    LET segments == Segments(numbering)
    IN IF segments = <<>> THEN state
       ELSE IF Len(segments) = 1
       THEN [state EXCEPT !.heading = label, !.section = <<>>,
                          !.subsection = <<>>]
       ELSE IF Len(segments) = 2
       THEN [state EXCEPT
                !.heading = IF @ # <<>> THEN @
                            ELSE IF ~ Contains(label, segments[1])
                            THEN segments[1] \o <<".", " ">> \o label
                            ELSE label,
                !.section = label,
                !.subsection = <<>>]
       ELSE [state EXCEPT
                !.heading = IF @ # <<>> THEN @
                            ELSE segments[1] \o <<" ">> \o label,
                !.section = IF @ # <<>> THEN @
                            ELSE IF " " \in Range(label)
                            THEN segments[1] \o <<".">> \o segments[2]
                                 \o <<" ">> \o AfterFirstSpace(label)
                            ELSE segments[1] \o <<".">> \o segments[2],
                !.subsection = label]

\* ordered[0] of ordered = tuple(sorted(set(pages)))
MinOf(S) == CHOOSE x \in S : \A y \in S : x <= y

\* the lines of the chunk contents
ContentLines ==
    { <<"1", " ", "A", "i", "m">>,
      <<"1", ".", "2", " ", "U", "s", "e">>,
      <<"1", ".", "2", ".", "3", " ", "K", "e", "y">>,
      <<"9", ".", "3", ".", "2", ".", "1", ".", "1", " ", "M", "a", "c">>,
      <<"S", "C", "O", "P", "E">>,
      <<"2", ".", "1", " ", "S", "e", "e", " ", "p", "a", "g", "e", " ", "5">>,
      <<"-", " ", "7", " ", "-">>,
      <<"t", "e", "x", "t">> }

\* "\n".join(lines)
RECURSIVE join_lines(_)
join_lines(lines) ==
    IF lines = <<>> THEN <<>>
    ELSE IF Len(lines) = 1 THEN lines[1]
    ELSE lines[1] \o <<"\n">> \o join_lines(Tail(lines))

\* the contents of the chunks given to consume
Contents ==
    { join_lines(lines) :
        lines \in UNION { [1..n -> ContentLines] : n \in 1..MaxContentLines } }

\* the contents with the start heading of ChunkUpdater, which it gives to
\* consume besides the contents above
StartContents ==
    { <<"1", " ", "O", "v", "e", "r", "v", "i", "e", "w">>,
      <<"t", "e", "x", "t", "\n", "1", " ", "O", "v", "e", "r", "v", "i", "e", "w">> }

\* what consume finds in a stripped line: the page number, the match of
\* STRUCTURE_RE and its label, the match of ALT_HEADING_RE and the
\* title-cased line
LineMatch(stripped) ==
    [page |-> _match_page_number(stripped),
     numbered |-> STRUCTURE_RE(stripped).matched,
     numbering |-> STRUCTURE_RE(stripped).num,
     label |-> strip(STRUCTURE_RE(stripped).num \o <<" ">>
                     \o rstrip_dot_space(strip(STRUCTURE_RE(stripped).title))),
     alt |-> ALT_HEADING_RE(stripped),
     formatted |-> title(stripped)]

\* the matches of the lines of the contents, and the page numbers of the
\* contents, each computed once
LineMatches ==
    [line \in {strip(l) : l \in ContentLines}
               \cup UNION { Range(splitlines(c)) : c \in StartContents } |->
        LineMatch(line)]
ContentPages ==
    [content \in Contents \cup StartContents |-> _extract_page_numbers(content)]

\* content.splitlines() of the contents, each computed once
SplitContents ==
    [content \in Contents \cup StartContents |-> splitlines(content)]

\* consume, lines 75-95: one line of the content
ConsumeLine(state, line) ==
    LET stripped == strip(line)
        match == LineMatches[stripped]
    IN IF stripped = <<>> THEN state
       ELSE IF match.page # {}
       THEN [state EXCEPT
                !.page_number = match.page,
                !.page_span = @ \cup match.page]
       ELSE IF match.numbered
       THEN _update_hierarchy(state, match.numbering, match.label)
       ELSE IF match.alt
       THEN [state EXCEPT !.heading = match.formatted, !.section = <<>>,
                          !.subsection = <<>>]
       ELSE state

RECURSIVE ConsumeLines(_, _)
ConsumeLines(state, lines) ==
    IF lines = <<>> THEN state
    ELSE ConsumeLines(ConsumeLine(state, Head(lines)), Tail(lines))

\* StructureTracker.consume: the state it leaves
consume(state, content) ==
    LET pages == ContentPages[content]
    IN ConsumeLines((IF pages # {}
                     THEN [state EXCEPT !.page_span = pages,
                                        !.page_number = {MinOf(pages)}]
                     ELSE state),
                    SplitContents[content])

\* StructureState.to_metadata: the keys of the payload
to_metadata(state) ==
    (IF state.heading # <<>> THEN {"heading"} ELSE {})
    \cup (IF state.section # <<>> THEN {"section"} ELSE {})
    \cup (IF state.subsection # <<>> THEN {"subsection"} ELSE {})
    \cup (IF state.heading # <<>> \/ state.section # <<>>
             \/ state.subsection # <<>>
          THEN {"section_hierarchy"} ELSE {})
    \cup (IF state.page_number # {} THEN {"page_number"} ELSE {})
    \cup (IF state.page_span # {} THEN {"page_numbers"} ELSE {})

\* a fresh tracker; content and metadata are the argument and the result
\* of the latest consume
FreshTracker ==
    [_state |-> StructureState, content |-> <<>>, metadata |-> {}]

\* the tracker after consume left the state: return self._state.to_metadata()
Consumed(content, state) ==
    [_state |-> state, content |-> content, metadata |-> to_metadata(state)]

\* updates = tracker.consume(chunk.content)
TrConsume ==
    \E content \in Contents :
        tr' = Consumed(content, consume(tr._state, content))

\* tracker.reset()
TrReset ==
    tr' = FreshTracker

\* ------------------------------------------------------------------------
\* get_pages_for_chunks: src/query.py
\* ------------------------------------------------------------------------

\* the ranked chunks: distinct ids (the keys of _combine_results), the
\* page span that replace_chunks stored (page_start <= page_end), or no
\* span at all (0 is None)
PageSpans == {<<0, 0>>, <<1, 1>>, <<1, 2>>, <<2, 3>>}

ChunkMatches ==
    { [id |-> id, document_id |-> d, page_start |-> sp[1], page_end |-> sp[2]]
        : id \in ChunkIds, d \in DocumentIds, sp \in PageSpans }

RankedChunks ==
    { chunks \in UNION { [1..n -> ChunkMatches] : n \in 0..MaxResults } :
        \A i, j \in 1..Len(chunks) : chunks[i].id = chunks[j].id => i = j }

\* the rows of rag_document_page: one per (document_id, page_number)
PageRows(keys) ==
    { [document_id |-> k[1], page_number |-> k[2],
       image_uri |-> upload_image_fn(1, <<"page", k[2]>>)] : k \in keys }

PageTables ==
    { PageRows({}),
      PageRows({<<1, 1>>, <<1, 2>>, <<1, 3>>}),
      PageRows({<<1, 1>>, <<1, 2>>, <<2, 1>>, <<2, 2>>, <<2, 3>>}),
      PageRows({<<1, 2>>, <<2, 3>>}) }

\* chunk_order = {chunk.id: idx for idx, chunk in enumerate(chunks)}
chunk_order(chunks, id) ==
    (CHOOSE i \in 1..Len(chunks) :
        /\ chunks[i].id = id
        /\ \A j \in (i + 1)..Len(chunks) : chunks[j].id # id) - 1

\* lines 431-439: range(start, end + 1) of a chunk, empty without a span
RangeOf(chunk) ==
    IF chunk.page_start = 0 /\ chunk.page_end = 0 THEN {}
    ELSE LET start == IF chunk.page_start # 0 THEN chunk.page_start
                      ELSE chunk.page_end
             endp == IF chunk.page_end # 0 THEN chunk.page_end
                     ELSE IF chunk.page_start # 0 THEN chunk.page_start
                     ELSE start
         IN start..(IF endp < start THEN start ELSE endp)

\* page_requirements: key -> the ids of the chunks that need the page
page_requirements(chunks) ==
    [key \in { <<chunks[i].document_id, n>> :
                  <<i, n>> \in { p \in (1..Len(chunks)) \X (1..3) :
                                   p[2] \in RangeOf(chunks[p[1]]) } } |->
        { chunks[i].id : i \in { j \in 1..Len(chunks) :
                                  /\ chunks[j].document_id = key[1]
                                  /\ key[2] \in RangeOf(chunks[j]) } }]

\* a variant: the position of the last chunk that needs the page
page_rank_Last(chunks, key) ==
    Max({ chunk_order(chunks, id) : id \in page_requirements(chunks)[key] })

\* page_rank[key]: the minimum of chunk_order over the chunks of the page
page_rank(chunks, key) ==
    MinOf({ chunk_order(chunks, id) : id \in page_requirements(chunks)[key] })

\* sorted(ids, key=chunk_order)
RECURSIVE SortedIds(_, _)
SortedIds(chunks, ids) ==
    IF ids = {} THEN <<>>
    ELSE LET first == CHOOSE id \in ids :
                          \A other \in ids :
                              chunk_order(chunks, id) <= chunk_order(chunks, other)
         IN <<first>> \o SortedIds(chunks, ids \ {first})

\* (m.rank, m.document_id, m.page_number) of a before that of b
PageKeyLE(a, b) ==
    \/ a.rank < b.rank
    \/ a.rank = b.rank /\ a.document_id < b.document_id
    \/ a.rank = b.rank /\ a.document_id = b.document_id
          /\ a.page_number <= b.page_number

\* matches.sort(key=lambda m: (m.rank, m.document_id, m.page_number))
RECURSIVE SortMatches(_)
SortMatches(matches) ==
    IF matches = {} THEN <<>>
    ELSE LET first == CHOOSE m \in matches : \A other \in matches : PageKeyLE(m, other)
         IN <<first>> \o SortMatches(matches \ {first})

\* get_pages_for_chunks(conninfo, chunks) on a table rag_document_page
get_pages_for_chunks(chunks, table) ==
    IF chunks = <<>> \/ DOMAIN page_requirements(chunks) = {} THEN <<>>
    ELSE SortMatches(
             { [document_id |-> row.document_id,
                page_number |-> row.page_number,
                image_uri |-> row.image_uri,
                chunk_ids |-> SortedIds(chunks,
                    page_requirements(chunks)[<<row.document_id, row.page_number>>]),
                rank |-> page_rank(chunks, <<row.document_id, row.page_number>>)]
               : row \in { p \in table :
                              <<p.document_id, p.page_number>>
                                  \in DOMAIN page_requirements(chunks) } })

\* pages = get_pages_for_chunks(conninfo, chunks)
TxPagesForChunks ==
    /\ tx.pc = "idle"
    /\ \E chunks \in RankedChunks, table \in PageTables :
           tx' = [tx EXCEPT !.pc = "pages", !.ranked = chunks, !.table = table,
                            !.matches = get_pages_for_chunks(chunks, table)]

\* ------------------------------------------------------------------------
\* ChunkUpdater: src/ingest/embed_and_update_chunks.py
\* ------------------------------------------------------------------------

\* how many rows rag_chunk is given in all (the ids of the BIGSERIAL)
MaxChunkIds == 3

\* how many chunks one replace_chunks call inserts
ChunkCounts == {1, 2}

\* run(limit): 0 is no limit ("if limit:")
Limits == {0, 1, 2}

\* config.DOCUMENT_HEADERS and DOCUMENT_FOOTERS, the entries that occur in
\* the contents, as the tokens of _build_literal_patterns
_header_patterns ==
    << << <<"O", "v", "e", "r", "v", "i", "e", "w">>, <<"a", "n", "d">>, <<"A", "r", "c", "h", "i", "t", "e", "c", "t", "u", "r", "e">> >>,
       << <<"R", "e", "s", "t", "r", "i", "c", "t", "i", "o", "n", "s">>, <<"a", "p", "p", "l", "y", ".">> >> >>

\* the contents replace_chunks stores
RowContents ==
    { <<"t", "e", "x", "t">>,
      <<"R", "e", "s", "t", "r", "i", "c", "t", "i", "o", "n", "s", " ", "a", "p", "p", "l", "y", ".">>,
      <<"1", " ", "O", "v", "e", "r", "v", "i", "e", "w">>,
      <<"t", "e", "x", "t", "\n", "1", " ", "O", "v", "e", "r", "v", "i", "e", "w">>,
      <<"1", ".", "2", " ", "U", "s", "e">>,
      <<"R", "e", "s", "t", "r", "i", "c", "t", "i", "o", "n", "s", " ", "a", "p", "p", "l", "y", ".", "\n", "1", ".", "2", ".", "3", " ", "K", "e", "y">> }

\* pattern.match at the start of s for tokens joined by \s+, IGNORECASE:
\* the length of the match, -1 without one
RECURSIVE MatchTokens(_, _)
MatchTokens(s, tokens) ==
    IF ~ startswith(lower(s), lower(Head(tokens))) THEN -1
    ELSE IF Len(tokens) = 1 THEN Len(Head(tokens))
    ELSE LET rest == Drop(s, Len(Head(tokens)))
             after == SkipSpace(rest)
             m == MatchTokens(after, Tail(tokens))
         IN IF after = rest \/ m < 0 THEN -1
            ELSE Len(s) - Len(after) + m

\* pattern.sub(" ", cleaned)
RECURSIVE PatternSub(_, _)
PatternSub(s, tokens) ==
    IF s = <<>> THEN <<>>
    ELSE IF MatchTokens(s, tokens) > 0
    THEN <<" ">> \o PatternSub(Drop(s, MatchTokens(s, tokens)), tokens)
    ELSE <<Head(s)>> \o PatternSub(Tail(s), tokens)

RECURSIVE SubAll(_, _)
SubAll(s, patterns) ==
    IF patterns = <<>> THEN s
    ELSE SubAll(PatternSub(s, Head(patterns)), Tail(patterns))

\* ChunkUpdater._strip_headers_and_footers
_strip_headers_and_footers(content) ==
    IF content = <<>> THEN <<>> ELSE strip(SubAll(content, _header_patterns))

\* START_HEADING_RE = \b1[\.\)]?\s*overview\b, IGNORECASE, matched at i
StartHeadingAt(s, i) ==
    /\ s[i] = "1"
    /\ (i = 1 \/ s[i - 1] \notin WordChars)
    /\ LET a == Drop(s, i)
           b == IF a # <<>> /\ Head(a) \in {".", ")"} THEN Tail(a) ELSE a
           c == SkipSpace(b)
       IN /\ startswith(lower(c), <<"o", "v", "e", "r", "v", "i", "e", "w">>)
          /\ (Len(c) = 8 \/ c[9] \notin WordChars)

\* START_HEADING_RE.search(cleaned): match.start() + 1, or 0 for None
START_HEADING_RE(s) ==
    IF \E i \in 1..Len(s) : StartHeadingAt(s, i)
    THEN MinOf({ i \in 1..Len(s) : StartHeadingAt(s, i) })
    ELSE 0

\* the texts a row can hold: as stored, or as _flush_batch rewrote it
StoredContents ==
    RowContents
    \cup { _strip_headers_and_footers(c) : c \in RowContents }
    \cup { SkipSpace(Drop(_strip_headers_and_footers(c),
                          START_HEADING_RE(_strip_headers_and_footers(c)) - 1))
           : c \in { x \in RowContents :
                       START_HEADING_RE(_strip_headers_and_footers(x)) > 0 } }

\* what _prepare_rows finds in a content, computed once
Cleaned ==
    [c \in StoredContents |->
        [cleaned |-> _strip_headers_and_footers(c),
         start |-> START_HEADING_RE(_strip_headers_and_footers(c))]]

\* ChunkUpdater._prepare_rows, from a row on
RECURSIVE PrepareFrom(_, _)
PrepareFrom(rows, start_found) ==
    IF rows = <<>> THEN <<>>
    ELSE LET chunk == Head(rows)
             cleaned == Cleaned[chunk.content].cleaned
             start == Cleaned[chunk.content].start
             cut == SkipSpace(Drop(cleaned, start - 1))
         IN IF cleaned = <<>> THEN PrepareFrom(Tail(rows), start_found)
            ELSE IF ~ start_found
            THEN IF start = 0 THEN PrepareFrom(Tail(rows), FALSE)
                 ELSE IF cut = <<>> THEN PrepareFrom(Tail(rows), TRUE)
                 ELSE << [chunk EXCEPT !.content = cut] >>
                      \o PrepareFrom(Tail(rows), TRUE)
            ELSE << [chunk EXCEPT !.content = cleaned] >>
                 \o PrepareFrom(Tail(rows), TRUE)

_prepare_rows(rows) == PrepareFrom(rows, FALSE)

\* the value to_metadata gives a key
PayloadValue(state, key) ==
    CASE key = "heading" -> state.heading
      [] key = "section" -> state.section
      [] key = "subsection" -> state.subsection
      [] key = "section_hierarchy" ->
            (IF state.heading # <<>> THEN <<state.heading>> ELSE <<>>)
            \o (IF state.section # <<>> THEN <<state.section>> ELSE <<>>)
            \o (IF state.subsection # <<>> THEN <<state.subsection>> ELSE <<>>)
      [] key = "page_number" -> state.page_number
      [] key = "page_numbers" -> state.page_span

\* the dict of StructureState.to_metadata
Payload(state) == [key \in to_metadata(state) |-> PayloadValue(state, key)]

\* ChunkUpdater._merge_metadata (no value of updates is None)
_merge_metadata(existing, updates) ==
    LET keys == DOMAIN existing \cup DOMAIN updates
        default == /\ "page_numbers" \in DOMAIN updates
                   /\ updates["page_numbers"] # {}
                   /\ "page_number" \notin keys
    IN [key \in keys \cup (IF default THEN {"page_number"} ELSE {}) |->
           IF key \in DOMAIN updates THEN updates[key]
           ELSE IF key \in DOMAIN existing THEN existing[key]
           ELSE {MinOf(updates["page_numbers"])}]

\* self.embedder.embed(content): the vector of a text (<<>> is NULL)
embed(content) == <<content>>

\* a variant that never skips a row
Skipped_Never(chunk, update_missing_only) == FALSE

\* line 239: if update_missing_only and not chunk.needs_update: continue
Skipped(chunk, update_missing_only) ==
    update_missing_only /\ ~ chunk.needs_update

\* the results of two stretches of the loop, one after the other:
\*   batch     the tuples appended to batch
\*   consumed  the ids of the chunks whose content was given to consume
Both(first, rest) ==
    [batch |-> first.batch \o rest.batch,
     consumed |-> first.consumed \o rest.consumed]

\* the body of the loop of _process_document for a chunk, after
\* updates = tracker.consume(chunk.content) left the state after
ProcessChunk(chunk, after, update_missing_only) ==
    [batch |->
        IF Skipped(chunk, update_missing_only) THEN <<>>
        ELSE << [id |-> chunk.id, embedding |-> embed(chunk.content),
                 content |-> chunk.content,
                 metadata |-> _merge_metadata(chunk.metadata, Payload(after))] >>,
     consumed |-> <<chunk.id>>,
     state |-> after]

\* the loop of _process_document over filtered, from a chunk on
RECURSIVE ProcessFrom(_, _, _)
ProcessRest(filtered, first, update_missing_only) ==
    Both(first, ProcessFrom(Tail(filtered), first.state, update_missing_only))

ProcessFrom(filtered, state, update_missing_only) ==
    IF filtered = <<>> THEN [batch |-> <<>>, consumed |-> <<>>]
    ELSE ProcessRest(filtered,
                     ProcessChunk(Head(filtered),
                                  consume(state, Head(filtered).content),
                                  update_missing_only),
                     update_missing_only)

\* ChunkUpdater._process_document: tracker.reset() and the loop
_process_document(rows, update_missing_only) ==
    ProcessFrom(_prepare_rows(rows), StructureState, update_missing_only)

\* ORDER BY document_id, order_index
RECURSIVE OrderRows(_)
OrderRows(rows) ==
    IF rows = {} THEN <<>>
    ELSE LET first == CHOOSE r \in rows :
                          \A o \in rows :
                              \/ r.document_id < o.document_id
                              \/ /\ r.document_id = o.document_id
                                 /\ r.chunk_index <= o.chunk_index
         IN <<first>> \o OrderRows(rows \ {first})

\* the rows the SELECT of run returns, as ChunkRow
SelectRows(table, limit, only_missing_embeddings) ==
    LET read == IF only_missing_embeddings
                THEN { r \in table : \E o \in table :
                                        /\ o.document_id = r.document_id
                                        /\ o.embedding = <<>> }
                ELSE table
        ordered == OrderRows(read)
        n == IF limit # 0 /\ limit < Len(ordered) THEN limit ELSE Len(ordered)
    IN [i \in 1..n |->
           [id |-> ordered[i].id, document_id |-> ordered[i].document_id,
            content |-> ordered[i].content, metadata |-> ordered[i].metadata,
            needs_update |-> ordered[i].embedding = <<>>]]

\* the rows of the document the cursor is at
DocumentRows(rows) ==
    SubSeq(rows, 1, Cardinality({ i \in 1..Len(rows) :
                        rows[i].document_id = Head(rows).document_id }))

\* the loop of run over the cursor: _process_document for the rows of each
\* document in turn
RECURSIVE ProcessDocuments(_, _)
ProcessNext(rows, document_rows, update_missing_only) ==
    Both(_process_document(document_rows, update_missing_only),
         ProcessDocuments(SubSeq(rows, Len(document_rows) + 1, Len(rows)),
                          update_missing_only))

ProcessDocuments(rows, update_missing_only) ==
    IF rows = <<>> THEN [batch |-> <<>>, consumed |-> <<>>]
    ELSE ProcessNext(rows, DocumentRows(rows), update_missing_only)

\* ChunkUpdater._flush_batch: UPDATE rag_chunk SET embedding, content,
\* metadata = metadata || merged WHERE id
_flush_batch(table, batch) ==
    { IF \E i \in 1..Len(batch) : batch[i].id = r.id
      THEN LET u == batch[CHOOSE i \in 1..Len(batch) : batch[i].id = r.id]
           IN [r EXCEPT !.embedding = u.embedding, !.content = u.content,
                        !.metadata = _merge_metadata(r.metadata, u.metadata)]
      ELSE r : r \in table }

\* no run yet, no row
IdleUpdater ==
    [table |-> {}, next_id |-> 1, runs |-> 0,
     limit |-> 0, only_missing_embeddings |-> FALSE,
     consumed |-> <<>>, written |-> {}]

\* replace_chunks(document_id, chunks): DELETE the rows of the document and
\* INSERT the new ones, embedding NULL and metadata {}
CuReplaceChunks ==
    \E document_id \in DocumentIds, n \in ChunkCounts :
        /\ cu.next_id + n - 1 <= MaxChunkIds
        /\ \E contents \in [1..n -> RowContents] :
              cu' = [cu EXCEPT
                        !.table = { r \in @ : r.document_id # document_id }
                            \cup { [id |-> cu.next_id + i - 1,
                                    document_id |-> document_id,
                                    chunk_index |-> i - 1,
                                    content |-> contents[i],
                                    embedding |-> <<>>,
                                    metadata |-> <<>>] : i \in 1..n },
                        !.next_id = @ + n,
                        !.runs = 0, !.limit = 0,
                        !.only_missing_embeddings = FALSE,
                        !.consumed = <<>>, !.written = {}]

\* ChunkUpdater.run(limit, only_missing_embeddings) without an error: the
\* batch stays below batch_size (200) and is flushed once at the end;
\* runs (0: none since the rows changed, else 1 or 2 in turn), consumed
\* and written record the call, they are no fields
RunDone(limit, only_missing_embeddings, done) ==
    [cu EXCEPT
        !.table = _flush_batch(@, done.batch),
        !.runs = IF @ = 1 THEN 2 ELSE 1,
        !.limit = limit,
        !.only_missing_embeddings = only_missing_embeddings,
        !.consumed = done.consumed,
        !.written = { done.batch[i].id : i \in 1..Len(done.batch) }]

CuRun ==
    /\ cu.table # {}
    /\ \E limit \in Limits, only_missing_embeddings \in BOOLEAN :
          cu' = RunDone(limit, only_missing_embeddings,
                    ProcessDocuments(
                        SelectRows(cu.table, limit, only_missing_embeddings),
                        only_missing_embeddings))

\* ------------------------------------------------------------------------
\* Spec: the store, the upload endpoint and ingest_pdf
\* ------------------------------------------------------------------------

Init ==
    /\ rag_document = {}
    /\ rag_chunk = {}
    /\ rag_document_page = {}
    /\ rag_figure = {}
    /\ rag_ingestion_run = << >>
    /\ serial = [doc |-> 1, chunk |-> 1, call |-> 1]
    /\ bg = << >>
    /\ ing = IdleIngest
    /\ documents = {}
    /\ nodes = {}
    /\ pl = IdlePipeline
    /\ q = IdleQuery
    /\ _pool = 0
    /\ pools = << >>
    /\ gc = [c \in Callers |-> IdleConn]
    /\ tx = IdleText
    /\ fx = IdleFigures
    /\ tr = FreshTracker
    /\ cu = IdleUpdater

Next ==
    \/ (IngestEndpoint /\ UNCHANGED OutsideSpec)
    \/ (\E r \in RunIds : BgCallIngest(r) /\ UNCHANGED OutsideSpec)
    \/ (\E r \in RunIds : BgUpdateStatus(r) /\ UNCHANGED OutsideSpec)
    \/ (IngestPdf /\ UNCHANGED OutsideSpec)
    \/ (IngestReplaceChunks /\ UNCHANGED OutsideSpec)
    \/ (IngestPersistPages /\ UNCHANGED OutsideSpec)
    \/ (IngestExtractFigures /\ UNCHANGED OutsideSpec)
    \/ (IngestEmbed /\ UNCHANGED OutsideSpec)
    \/ (IngestReturn /\ UNCHANGED OutsideSpec)

Spec == Init /\ [][Next]_vars

\* ------------------------------------------------------------------------
\* Claims about the ingestion run and the rag_* tables (under Spec)
\* ------------------------------------------------------------------------

\* C1: every run is created with status 'processing', and its status only
\* ever changes from 'processing' to 'completed' or 'failed'; a terminal
\* status is never changed again.
C1_StatusChangesOnce ==
    [][\A r \in DOMAIN rag_ingestion_run' :
          IF r \notin DOMAIN rag_ingestion_run
          THEN rag_ingestion_run'[r].status = "processing"
          ELSE rag_ingestion_run'[r].status # rag_ingestion_run[r].status
               => /\ rag_ingestion_run[r].status = "processing"
                  /\ rag_ingestion_run'[r].status \in Terminal]_vars

\* a run whose background task ended after the transition to a terminal status
C1_Witness ==
    \E r \in DOMAIN rag_ingestion_run :
        /\ bg[r].pc = "ended"
        /\ rag_ingestion_run[r].status \in Terminal

\* C2: a run whose background task has ended is 'completed' or 'failed',
\* and when 'failed' its error_message is the text of the exception.
C2_EndedRunIsTerminal ==
    \A r \in DOMAIN bg :
        bg[r].pc \in {"ended", "crashed"}
        => /\ rag_ingestion_run[r].status \in Terminal
           /\ rag_ingestion_run[r].status = "failed"
              => rag_ingestion_run[r].error_message = bg[r].exc

\* C3: a run of ingest_pdf over a content whose chunks are already stored
\* for the document deletes, inserts and updates no chunk, figure or page
\* row.
C3_SameChecksumNoWrite ==
    [][(ing.again /\ ing.pc \in {"chunks", "pages", "figures", "embed"})
          => UNCHANGED <<rag_chunk, rag_figure, rag_document_page>>]_vars

\* ------------------------------------------------------------------------
\* SpecPipeline: RAGIngestionPipeline over the documents and nodes tables
\* ------------------------------------------------------------------------

NextPipeline ==
    \/ (PlProcessDocument /\ UNCHANGED OutsidePipeline)
    \/ (PlEmbedInsert /\ UNCHANGED OutsidePipeline)
    \/ (PlReturn /\ UNCHANGED OutsidePipeline)

SpecPipeline == Init /\ [][NextPipeline]_vars

\* C4: when _process_document has finished without an exception for a file
\* whose name was stored with another hash, the nodes of the document of
\* that name are exactly the nodes built from the new content.
C4_ReplacedByNewContent ==
    (pl.pc = "done" /\ pl.outcome \in {"ok", "skipped"} /\ pl.changed)
    => \A d \in ByName(pl.file_name) :
           NodesOf(d.document_id) = NodePayloads(d.document_id, pl.file_hash)

\* the chunk sets a reader may see of a document: all nodes of one content
CompleteNodeSets(document_id) ==
    {NodePayloads(document_id, h) : h \in {x \in Checksums : SplitCount(x) > 0}}

\* C5: every committed state a reader can query holds, for a document that
\* had chunks, the complete chunk set of one content: never none, never a
\* part.
C5_ReaderSeesCompleteSet ==
    [][\A d \in documents :
          NodesOf(d.document_id) # {}
          => (NodesOf(d.document_id))' \in CompleteNodeSets(d.document_id)]_vars

\* ------------------------------------------------------------------------
\* SpecQuery: one query after another
\* ------------------------------------------------------------------------

NextQuery ==
    \/ (QSearch /\ UNCHANGED OutsideQuery)
    \/ (QRerank /\ UNCHANGED OutsideQuery)
    \/ (QAnswer /\ UNCHANGED OutsideQuery)
    \/ (QEndpoint /\ UNCHANGED OutsideQuery)
    \/ (QFigures /\ UNCHANGED OutsideQuery)
    \/ (QReturn /\ UNCHANGED OutsideQuery)

SpecQuery == Init /\ [][NextQuery]_vars

\* C6: whatever the relevance-judgment call does (an exception of any type,
\* RuntimeError included, or an unparsable payload), rerank returns and
\* raises nothing to its caller.
C6_RerankNeverRaises == q.raised_in # "rerank"

Unparsable(llm) == llm.call = "response" /\ llm.shape \in {"non_json", "no_ranking"}

IsPermutation(result, candidates) ==
    /\ Len(result) = Len(candidates)
    /\ \A i \in DOMAIN candidates :
           Cardinality({j \in DOMAIN result : result[j].id = candidates[i].id}) = 1

\* 0.6 * v / max_vector + 0.4 * l / max_lexical as the fraction num / den,
\* over the batch: an unset score is 0, a component with maximum 0 is 0
BatchMax(batch, field) == Max({OrZero(batch[i][field]) : i \in DOMAIN batch})
BlendedDen(batch) ==
    (IF BatchMax(batch, "vector_score") = 0 THEN 1
     ELSE BatchMax(batch, "vector_score"))
    * (IF BatchMax(batch, "lexical_score") = 0 THEN 1
       ELSE BatchMax(batch, "lexical_score"))
BlendedNum(c, batch) ==
    (IF BatchMax(batch, "vector_score") = 0 THEN 0
     ELSE 6 * OrZero(c.vector_score)
          * (IF BatchMax(batch, "lexical_score") = 0 THEN 1
             ELSE BatchMax(batch, "lexical_score")))
    + (IF BatchMax(batch, "lexical_score") = 0 THEN 0
       ELSE 4 * OrZero(c.lexical_score)
            * (IF BatchMax(batch, "vector_score") = 0 THEN 1
               ELSE BatchMax(batch, "vector_score")))
\* num(a)/den >= num(b)/den
BlendedGE(a, b, batch) ==
    (BlendedNum(a, batch) - BlendedNum(b, batch)) * BlendedDen(batch) >= 0

\* C7: on an unparsable payload rerank returns the candidates, each once,
\* in descending order of 0.6 * vector_score / max vector_score
\* + 0.4 * lexical_score / max lexical_score.
C7_FallbackOrder ==
    (q.pc = "reranked" /\ Unparsable(q.llm))
    => /\ IsPermutation(q.result, q.combined)
       /\ \A i, j \in DOMAIN q.result :
              i < j => BlendedGE(q.result[i], q.result[j], q.combined)

C7_Witness ==
    /\ q.pc = "reranked"
    /\ Unparsable(q.llm)
    /\ \E i, j \in DOMAIN q.combined :
          /\ i < j
          /\ ~ BlendedGE(q.combined[i], q.combined[j], q.combined)
    /\ \E i \in DOMAIN q.combined : q.combined[i].lexical_score = Unset
    /\ \E i \in DOMAIN q.combined : q.combined[i].vector_score = Unset

ScoredIn(c, llm) == c.id \in DOMAIN llm.scores

PartiallyScored ==
    /\ q.pc = "reranked"
    /\ q.llm.shape = "ranking"
    /\ \E i \in DOMAIN q.combined : ScoredIn(q.combined[i], q.llm)
    /\ \E i \in DOMAIN q.combined : ~ ScoredIn(q.combined[i], q.llm)

\* C8: when only some candidates are scored, rerank returns every
\* candidate once, the scored ones first by descending rerank score, the
\* unscored ones after them by descending vector_score + lexical_score.
C8_ScoredBeforeUnscored ==
    PartiallyScored
    => /\ IsPermutation(q.result, q.combined)
       /\ \A i, j \in DOMAIN q.result :
              i < j =>
                 /\ ScoredIn(q.result[j], q.llm) => ScoredIn(q.result[i], q.llm)
                 /\ (ScoredIn(q.result[i], q.llm) /\ ScoredIn(q.result[j], q.llm))
                    => q.llm.scores[q.result[i].id] >= q.llm.scores[q.result[j].id]
                 /\ (~ ScoredIn(q.result[i], q.llm) /\ ~ ScoredIn(q.result[j], q.llm))
                    => SumKey(q.result[i]) >= SumKey(q.result[j])

C8_Witness ==
    /\ PartiallyScored
    /\ \E i, j \in DOMAIN q.result :
          /\ i < j
          /\ ScoredIn(q.result[i], q.llm)
          /\ ~ ScoredIn(q.result[j], q.llm)
          /\ SumKey(q.result[j]) > q.llm.scores[q.result[i].id]
    /\ \E i, j \in DOMAIN q.result :
          i < j /\ ~ ScoredIn(q.result[i], q.llm) /\ ~ ScoredIn(q.result[j], q.llm)

IdsOf(results) == {results[i].id : i \in DOMAIN results}
ScoreOf(results, id, field) ==
    IF id \in IdsOf(results)
    THEN results[CHOOSE i \in DOMAIN results : results[i].id = id][field]
    ELSE Unset

\* C9: _combine_results returns one entry per chunk id of the union of the
\* two result lists, each with the vector score and the lexical score of
\* its chunk and unset where the chunk is not in that list.
C9_CombineKeepsScores ==
    q.pc = "combined"
    => /\ IdsOf(q.combined) = IdsOf(q.vector_results) \cup IdsOf(q.lexical_results)
       /\ Len(q.combined) = Cardinality(IdsOf(q.combined))
       /\ \A i \in DOMAIN q.combined :
              /\ q.combined[i].vector_score =
                     ScoreOf(q.vector_results, q.combined[i].id, "vector_score")
              /\ q.combined[i].lexical_score =
                     ScoreOf(q.lexical_results, q.combined[i].id, "lexical_score")

\* vector {A: 0.9, B: 0.7}, lexical {B: 0.5, C: 0.3}
C9_Witness ==
    /\ q.pc = "combined"
    /\ q.combined =
          << [id |-> 1, vector_score |-> {9}, lexical_score |-> Unset,
              rerank_score |-> Unset],
             [id |-> 2, vector_score |-> {7}, lexical_score |-> {5},
              rerank_score |-> Unset],
             [id |-> 3, vector_score |-> Unset, lexical_score |-> {3},
              rerank_score |-> Unset] >>

\* C10: the label stored at extraction and the label looked up at query
\* time are the same text for the same raw label, and the figure captioned
\* "Figure 9-22c" is returned for a chunk containing "FIG. 9-22C".
C10_SameCanonicalLabel ==
    q.pc = "figures"
    => /\ q.figure_label = q.lookup_of_raw
       /\ (q.raw = Figure_9_22c /\ q.ref = FIG_9_22C) => q.matches # {}

\* C11: a query whose embedding call failed is still answered: the
\* endpoint responds with a result, not with an error.
C11_EmbeddingFailureDegrades ==
    (q.pc = "responded" /\ q.embedding # "ok") => q.http = 200

\* C12: every payload answer_query returns has the keys answer, chunks,
\* pages and figures.
C12_PayloadKeys ==
    q.pc = "answered" => AnswerKeys \subseteq q.payload_keys

\* ------------------------------------------------------------------------
\* SpecConn: concurrent requests through get_conn
\* ------------------------------------------------------------------------

NextConn ==
    \/ (\E c \in Callers : GcCall(c) /\ UNCHANGED OutsideConn)
    \/ (\E c \in Callers : GcAttempt(c) /\ UNCHANGED OutsideConn)
    \/ (\E c \in Callers : GcResetPool(c) /\ UNCHANGED OutsideConn)
    \/ (\E c \in Callers : GcClearCache(c) /\ UNCHANGED OutsideConn)
    \/ (\E c \in Callers : GcSleep(c) /\ UNCHANGED OutsideConn)
    \/ (\E c \in Callers : GcConsumer(c) /\ UNCHANGED OutsideConn)
    \/ (\E c \in Callers : GcClose(c) /\ UNCHANGED OutsideConn)

SpecConn == Init /\ [][NextConn]_vars

\* C13: a recoverable failure is followed by the invalidation of the pool
\* it happened on and by a retry on another, newly created pool; get_conn
\* enters pool.connection() at most _MAX_RETRIES times, and when all of
\* them failed it raises the last error.
C13_BoundedRetry ==
    \A c \in Callers :
        /\ gc[c].tries <= 5
        /\ gc[c].tries <= _MAX_RETRIES
        /\ (gc[c].pc \in {"sleep", "loop"} /\ gc[c].failed # 0)
           => /\ pools[gc[c].failed] = "closed"
              /\ _pool # gc[c].failed
        /\ (gc[c].pc = "yielded" /\ gc[c].failed # 0)
           => /\ gc[c].pool # gc[c].failed
              /\ gc[c].pool > gc[c].failed
        /\ (gc[c].pc = "raised" /\ gc[c].attempt = _MAX_RETRIES)
           => gc[c].raised = gc[c].last_error

C13_Witness ==
    \E c \in Callers :
        /\ gc[c].pc = "raised"
        /\ gc[c].tries = _MAX_RETRIES
        /\ gc[c].yields = 0
        /\ gc[c].raised.chain[Len(gc[c].raised.chain)] \in _RECOVERABLE_SUBSTRINGS
        /\ gc[c].pool > gc[c].tries - 1

\* an error that is no recoverable transport-level error
NotTransport(exc) ==
    /\ exc # NoError
    /\ \/ exc.type # "OperationalError"
       \/ \A i \in DOMAIN exc.chain : exc.chain[i] \notin _RECOVERABLE_SUBSTRINGS

\* C14: an error that is not a recoverable transport-level error ends
\* get_conn with that error in the step it occurs: it never leads to a pool
\* reset or a sleep, and nothing is attempted after it.
C14_NonTransportPropagates ==
    [][\A c \in Callers :
          /\ (gc'[c].pc = "reset" /\ gc[c].pc # "reset")
             => ~ NotTransport(gc'[c].last_error)
          /\ (gc'[c].pc = "raised" /\ gc[c].pc # "raised"
                /\ NotTransport(gc'[c].raised))
             => /\ gc[c].pc \in {"loop", "yielded"}
                /\ \A p \in DOMAIN pools : pools'[p] = pools[p]
                /\ _pool' = 0 => _pool = 0
          /\ gc[c].pc = "raised" => gc'[c] = gc[c]]_vars

C14_Witness ==
    \E c, d \in Callers :
        /\ gc[c].pc = "raised"
        /\ gc[c].raised.type = "ProgrammingError"
        /\ gc[c].tries = 1
        /\ gc[d].pc = "raised"
        /\ gc[d].raised.type = "OperationalError"
        /\ NotTransport(gc[d].raised)
        /\ gc[d].tries = 1
        /\ pools = <<"open">>

\* C15: an ingestion of a document without any extractable text raises
\* instead of going on, and leaves the stored chunks as they are.
C15_ZeroTextFails ==
    [][(ing.pc = "chunks" /\ build_chunks_from_pdf(ing.checksum) = <<>>
          /\ ing'.pc # "chunks")
          => (ing'.pc = "raised" /\ rag_chunk' = rag_chunk)]_vars

\* ------------------------------------------------------------------------
\* Claims about the text functions (under SpecText)
\* ------------------------------------------------------------------------

NextText ==
    \/ (TxSplit /\ UNCHANGED OutsideText)
    \/ (TxBuildChunks /\ UNCHANGED OutsideText)
    \/ (TxParseRanking /\ UNCHANGED OutsideText)
    \/ (TxPagesForChunks /\ UNCHANGED OutsideText)
    \/ (TxReturn /\ UNCHANGED OutsideText)

SpecText == Init /\ [][NextText]_vars

\* the index field of the chunks of either function
IndexOf(chunk) ==
    IF tx.pc = "split" THEN chunk.index ELSE chunk.chunk_index

\* C16: the chunk indices that build_chunks_from_pdf and
\* SectionAwareTextSplitter.split assign are 0, 1, ..., n-1 in emission
\* order, whatever empty pages, heading flushes and table chunks occur.
C16_IndicesContiguous ==
    tx.pc \in {"split", "built"} =>
        \A i \in 1..Len(tx.chunks) : IndexOf(tx.chunks[i]) = i - 1

\* split emitted a chunk after a heading flush on a document with an
\* empty page
C16_Witness ==
    /\ tx.pc = "split"
    /\ \E i \in 1..(Len(tx.chunks) - 1) : tx.chunks[i].flushed_by = "heading"
    /\ \E i \in 1..Len(tx.pages) : tx.pages[i].text = <<>>

\* build_chunks_from_pdf emitted a table chunk after two body chunks of a
\* PDF with a page without paragraphs
C16_BuiltWithTables ==
    /\ tx.pc = "built"
    /\ Len(tx.chunks) >= 3
    /\ tx.chunks[Len(tx.chunks)].chunk_type = "table"
    /\ \E i \in 1..Len(tx.pdf) : tx.pdf[i].paragraphs = <<>>

\* the first n characters of a text: text[:n]
First(text, n) ==
    IF n >= Len(text) THEN text ELSE SubSeq(text, 1, n)

\* C17: in split with overlap_chars = V > 0, when chunk i was flushed
\* because the buffer reached max_chars, the last V characters of chunk
\* i's text are the first V characters of chunk i+1's text.
C17_OverlapShared ==
    (tx.pc = "split" /\ tx.self.overlap_chars > 0) =>
        \A i \in 1..(Len(tx.chunks) - 1) :
            tx.chunks[i].flushed_by = "size" =>
                Last(tx.chunks[i].text, tx.self.overlap_chars)
                    = First(tx.chunks[i + 1].text, tx.self.overlap_chars)

\* ------------------------------------------------------------------------
\* Claims about extract_figures_from_pdf (under SpecFigures)
\* ------------------------------------------------------------------------

NextFigures ==
    \/ (FxCall /\ UNCHANGED OutsideFigures)
    \/ (FxCaption /\ UNCHANGED OutsideFigures)
    \/ (FxCaptionsDone /\ UNCHANGED OutsideFigures)
    \/ (FxImage /\ UNCHANGED OutsideFigures)
    \/ (FxImagesDone /\ UNCHANGED OutsideFigures)
    \/ (FxReturn /\ UNCHANGED OutsideFigures)

SpecFigures == Init /\ [][NextFigures]_vars

\* C18: one run of extract_figures_from_pdf persists at most one figure
\* per normalised label (a label once persisted is skipped afterwards), and
\* rag_figure holds at most one row per (document, figure_label), which
\* carries page, caption and image of the latest extraction.
C18_OneFigurePerLabel ==
    /\ \A i, j \in 1..Len(fx.persisted) :
           fx.persisted[i].figure_label = fx.persisted[j].figure_label => i = j
    /\ fx.seen_labels = {fx.persisted[i].figure_label : i \in 1..Len(fx.persisted)}
    /\ \A f, g \in rag_figure :
           (f.document_id = g.document_id /\ f.figure_label = g.figure_label)
               => f = g
    /\ \A i \in 1..Len(fx.persisted) :
           \E f \in rag_figure :
               /\ f.document_id = fx.document_id
               /\ f.figure_label = fx.persisted[i].figure_label
               /\ f.page_number = fx.persisted[i].page_number
               /\ f.caption = fx.persisted[i].caption
               /\ f.image_uri.uuid = fx.call

\* the second extraction of a document skipped a label it had persisted
\* on an earlier page and overwrote the row of the first extraction
C18_Witness ==
    /\ fx.call = 2
    /\ fx.pc = "captions"
    /\ fx.page_num = 2
    /\ fx.idx > 1
    /\ fx.persisted # <<>>
    /\ pdf_normalise_figure_label(fx.pdf[2].captions[fx.idx - 1].raw)
           = fx.persisted[1].figure_label
    /\ fx.persisted[1].page_number = 1
    /\ \E f \in rag_figure :
           /\ f.document_id = fx.document_id
           /\ f.figure_label = fx.persisted[1].figure_label
           /\ f.image_uri.uuid = 2
           /\ f.caption # "c4"
    /\ \A f \in rag_figure : f.image_uri.uuid = 2

\* C19: _parse_ranking_output takes scores from exactly three shapes of
\* payload: an object with a ranking / rankings / scores list, a single
\* {id, score} object, and a flat mapping from id to score; every other
\* shape, a top-level list included, yields no scores.
C19_ThreeShapes ==
    tx.pc = "parsed" =>
        IF tx.llm.shape \in {"ranking", "id_score", "mapping"}
        THEN tx.scores = tx.llm.scores
        ELSE DOMAIN tx.scores = {}

\* ------------------------------------------------------------------------
\* Claims about StructureTracker (under SpecTracker)
\* ------------------------------------------------------------------------

NextTracker ==
    \/ (TrConsume /\ UNCHANGED OutsideTracker)
    \/ (TrReset /\ UNCHANGED OutsideTracker)

SpecTracker == Init /\ [][NextTracker]_vars

\* a numbered heading line, read without the tracker's patterns: an
\* optional "Section", a numbering of any depth, an optional "." or ")",
\* white space and a title; [numbered, segments, label]
NumberedHeading(line) ==
    LET s == AfterSection(strip(line))
        n == IF DigitRun(s) = 0 THEN 0
             ELSE DigitRun(s) + ExtraSegments(Drop(s, DigitRun(s)), Len(s))
        rest == Drop(s, n)
        spaced == IF rest # <<>> /\ Head(rest) \in {".", ")"}
                  THEN Tail(rest) ELSE rest
        text == SkipSpace(spaced)
    IN [numbered |-> /\ n > 0
                     /\ spaced # <<>>
                     /\ Head(spaced) \in WhiteSpace
                     /\ text # <<>>
                     /\ Head(text) \in Letters \cup Digits,
        segments |-> Len(Segments(SubSeq(s, 1, n))),
        label |-> SubSeq(s, 1, n) \o <<" ">> \o rstrip_dot_space(text)]

AllCapsHeading(line) == ALT_HEADING_RE(strip(line))

\* the lines of the latest content that are heading lines
HeadingLines ==
    { i \in DOMAIN splitlines(tr.content) :
        \/ NumberedHeading(splitlines(tr.content)[i]).numbered
        \/ AllCapsHeading(splitlines(tr.content)[i]) }

\* C20: after consume, the level that the most recent heading line sets
\* (1 segment or all caps: heading, 2 segments: section, 3 or more:
\* subsection) holds the label of that line, and every deeper level is
\* unset.
C20_LatestHeadingHeld ==
    HeadingLines # {} =>
        LET line == splitlines(tr.content)[Max(HeadingLines)]
            h == NumberedHeading(line)
        IN IF ~ h.numbered
           THEN /\ tr._state.heading = title(strip(line))
                /\ tr._state.section = <<>>
                /\ tr._state.subsection = <<>>
           ELSE IF h.segments = 1
           THEN /\ tr._state.heading = h.label
                /\ tr._state.section = <<>>
                /\ tr._state.subsection = <<>>
           ELSE IF h.segments = 2
           THEN /\ tr._state.section = h.label
                /\ tr._state.subsection = <<>>
           ELSE tr._state.subsection = h.label

\* ------------------------------------------------------------------------
\* Claims about the page span and the size of chunks (under SpecText)
\* ------------------------------------------------------------------------

MinPage(S) == CHOOSE x \in S : \A y \in S : x <= y
MaxPage(S) == CHOOSE x \in S : \A y \in S : y <= x

\* C21: the page span of every chunk of split (without overlap, where the
\* pages of the buffer are those of its paragraphs) and of every body chunk
\* of build_chunks_from_pdf is the first and the last page whose text is
\* in the chunk.
C21_SpanIsContributingPages ==
    /\ (tx.pc = "split" /\ tx.self.overlap_chars = 0) =>
           \A i \in 1..Len(tx.chunks) :
               tx.chunks[i].page_span = <<MinPage(tx.chunks[i].pages),
                                          MaxPage(tx.chunks[i].pages)>>
    /\ tx.pc = "built" =>
           \A i \in 1..Len(tx.chunks) :
               tx.chunks[i].chunk_type = "body" =>
                   LET pages == {tx.chunks[i].paragraphs[k].page
                                    : k \in 1..Len(tx.chunks[i].paragraphs)}
                   IN /\ tx.chunks[i].page_start = MinPage(pages)
                      /\ tx.chunks[i].page_end = MaxPage(pages)

\* C22: no body chunk of build_chunks_from_pdf is longer than
\* MAX_CHARS_PER_BODY_CHUNK, and no chunk of split is longer than
\* max_chars.
C22_ChunkSizeBounded ==
    /\ tx.pc = "built" =>
           \A i \in 1..Len(tx.chunks) :
               tx.chunks[i].chunk_type = "body" =>
                   tx.chunks[i].content <= MAX_CHARS_PER_BODY_CHUNK
    /\ tx.pc = "split" =>
           \A i \in 1..Len(tx.chunks) :
               Len(tx.chunks[i].text) <= tx.self.max_chars

\* the inclusive page span of a chunk covers a page of a document
Covers(chunk, document_id, page_number) ==
    /\ chunk.document_id = document_id
    /\ chunk.page_start # 0
    /\ chunk.page_start <= page_number
    /\ page_number <= chunk.page_end

Covering(m) ==
    { i \in 1..Len(tx.ranked) : Covers(tx.ranked[i], m.document_id, m.page_number) }

\* C23: get_pages_for_chunks returns only stored pages that lie in the
\* span of some chunk; each carries exactly the ids of the chunks that
\* cover it, its rank is the least list position of those chunks, and the
\* pages are ordered by (rank, document id, page number).
C23_PagesOfChunks ==
    tx.pc = "pages" =>
        /\ \A k \in 1..Len(tx.matches) :
               LET m == tx.matches[k]
               IN /\ \E p \in tx.table :
                         /\ p.document_id = m.document_id
                         /\ p.page_number = m.page_number
                         /\ p.image_uri = m.image_uri
                  /\ Covering(m) # {}
                  /\ Range(m.chunk_ids) = { tx.ranked[i].id : i \in Covering(m) }
                  /\ Len(m.chunk_ids) = Cardinality(Covering(m))
                  /\ m.rank = MinOf(Covering(m)) - 1
        /\ \A k \in 1..(Len(tx.matches) - 1) :
               /\ PageKeyLE(tx.matches[k], tx.matches[k + 1])
               /\ ~ PageKeyLE(tx.matches[k + 1], tx.matches[k])

\* two chunks of two documents gave pages of both, one page needed by
\* both chunks, and a page of the span that is not stored was left out
C23_Witness ==
    /\ tx.pc = "pages"
    /\ Len(tx.ranked) = 2
    /\ Len(tx.matches) >= 2
    /\ \E k \in 1..Len(tx.matches) : Len(tx.matches[k].chunk_ids) = 2
    /\ \E k \in 1..Len(tx.matches) : tx.matches[k].rank = 1
    /\ \E i \in 1..2, n \in 1..3 :
           /\ Covers(tx.ranked[i], tx.ranked[i].document_id, n)
           /\ \A k \in 1..Len(tx.matches) :
                  ~ (tx.matches[k].document_id = tx.ranked[i].document_id
                     /\ tx.matches[k].page_number = n)

\* C24: an ingestion run started by the endpoint is never marked 'failed'
\* because the call of ingest_pdf itself was rejected: with no storage,
\* database or model failure the run ends 'completed'.
C24_RunCompletes ==
    \A r \in DOMAIN rag_ingestion_run :
        rag_ingestion_run[r].status = "failed" =>
            rag_ingestion_run[r].error_message # "TypeError"

\* C25: the pipeline never skips a document as already present while no
\* node of it is stored: a document whose processing failed after
\* upsert_document committed is processed again by a later run.
C25_SkippedHasNodes ==
    (pl.pc = "done" /\ pl.outcome = "skipped") => NodesOf(pl.document_id) # {}

\* C26: an invocation of get_conn hands its consumer a connection at most
\* once, whatever the consumer raises while it uses the connection.
C26_YieldsOnce == \A c \in DOMAIN gc : gc[c].yields <= 1

\* C27: the cached pool is cleared only while it is the failed pool that
\* _reset_pool has closed: a newer pool installed by init_pool is never
\* dropped from the cache unclosed.
C27_ClearsOnlyFailedPool ==
    [][(_pool # 0 /\ _pool' = 0) => pools'[_pool] = "closed"]_vars

\* C28: after any consume and reset calls on a fresh tracker a subsection
\* is held only with a section and a section only with a heading, and the
\* metadata of consume has only keys whose value is set.
C28_WellFormedHierarchy ==
    /\ tr._state.subsection # <<>> => tr._state.section # <<>>
    /\ tr._state.section # <<>> => tr._state.heading # <<>>
    /\ "heading" \in tr.metadata => tr._state.heading # <<>>
    /\ "section" \in tr.metadata => tr._state.section # <<>>
    /\ "subsection" \in tr.metadata => tr._state.subsection # <<>>
    /\ "section_hierarchy" \in tr.metadata => tr._state.heading # <<>>
    /\ "page_number" \in tr.metadata => tr._state.page_number # {}
    /\ "page_numbers" \in tr.metadata => tr._state.page_span # {}

\* a content that begins with a line numbered three levels deep was
\* consumed: subsection and section are held, the metadata has the
\* subsection and no page key
C28_Witness ==
    /\ tr.content # <<>>
    /\ Len(Segments(LineMatches[strip(Head(splitlines(tr.content)))].numbering)) >= 3
    /\ tr._state.subsection # <<>>
    /\ tr._state.section # <<>>
    /\ "subsection" \in tr.metadata
    /\ "page_numbers" \notin tr.metadata

NextUpdater ==
    \/ (CuReplaceChunks /\ UNCHANGED OutsideUpdater)
    \/ (CuRun /\ UNCHANGED OutsideUpdater)

SpecUpdater == Init /\ [][NextUpdater]_vars

\* the row of an id
RowOf(table, id) == CHOOSE r \in table : r.id = id

\* C29: a run with only_missing_embeddings = True writes to no chunk whose
\* embedding is non-null (embedding, content and metadata stay), and the
\* content of such a chunk is still given to consume before every later
\* chunk of its document that the run writes.
C29_BackfillLeavesEmbedded ==
    [][(cu'.runs # cu.runs /\ cu'.runs # 0 /\ cu'.only_missing_embeddings) =>
          \A r \in cu.table :
              r.embedding # <<>> =>
                  /\ r \in cu'.table
                  /\ r.id \notin cu'.written
                  /\ \A w \in cu'.written :
                        (/\ RowOf(cu.table, w).document_id = r.document_id
                         /\ RowOf(cu.table, w).chunk_index > r.chunk_index)
                        => \E i, j \in 1..Len(cu'.consumed) :
                              /\ i < j
                              /\ cu'.consumed[i] = r.id
                              /\ cu'.consumed[j] = w]_vars

\* a backfill left an embedded start chunk as it was and wrote the chunk
\* after it, whose metadata holds the heading of the start chunk
C29_Witness ==
    /\ cu.only_missing_embeddings
    /\ cu.written # {}
    /\ \E r \in cu.table, w \in cu.table :
          /\ r.document_id = w.document_id
          /\ r.chunk_index < w.chunk_index
          /\ r.embedding # <<>>
          /\ r.id \notin cu.written
          /\ w.id \in cu.written
          /\ "heading" \in DOMAIN w.metadata
          /\ "heading" \in DOMAIN r.metadata
          /\ w.metadata["heading"] = r.metadata["heading"]
          /\ "section" \in DOMAIN w.metadata

\* C30: after a run without a limit every chunk it read has an embedding,
\* the chunks before the start heading and the chunks that are empty once
\* headers and footers are stripped included.
C30_AllEmbeddedAfterRun ==
    (cu.runs # 0 /\ cu.limit = 0 /\ ~ cu.only_missing_embeddings) =>
        \A r \in cu.table : r.embedding # <<>>

====
